---------------------------- MODULE Spec2Model ----------------------------
(***************************************************************************)
(* Feedback Intelligence Pipeline (src/src/index.ts).                      *)
(*                                                                         *)
(* MyWorkflow.run loops over the items of a batch; for each well-formed    *)
(* item it awaits a step "analyze feedback from <source>" (one Workers AI  *)
(* call, then normalisation of the answer) and a step "persist feedback    *)
(* from <source>" (one INSERT into the D1 table).  The durable engine that *)
(* executes the steps is the environment: it memoizes a completed step     *)
(* under its name, retries a failing step and restarts a crashed run.      *)
(*                                                                         *)
(* Strings are sequences of chunks (a chunk is one character or one word); *)
(* JSON text is such a sequence, parsed and serialised chunk by chunk.     *)
(***************************************************************************)
EXTENDS Integers, Sequences, FiniteSets, TLC

(***************************************************************************)
(* Bounds of the model.                                                    *)
(***************************************************************************)
\* Longest batch handed to a run.
MaxItems == 2
\* Retries the engine grants a failing step after its first attempt.
MaxRetries == 1
\* Restarts of a run after a crash of the engine.
MaxCrashes == 2
\* The time up to which milliseconds pass on their own, between the steps
\* of the program.
MaxClock == 3
\* Milliseconds in a second of the model's time.
MsPerSecond == 2
\* The HTTP exchanges after which only POST /ingest requests are followed.
MaxExchanges == 2

(***************************************************************************)
(* Strings.                                                                *)
(***************************************************************************)
WhiteSpace == {" "}

RECURSIVE TrimStart(_)
TrimStart(s) ==
    IF s # <<>> /\ Head(s) \in WhiteSpace THEN TrimStart(Tail(s)) ELSE s

RECURSIVE TrimEnd(_)
TrimEnd(s) ==
    IF s # <<>> /\ s[Len(s)] \in WhiteSpace
    THEN TrimEnd(SubSeq(s, 1, Len(s) - 1))
    ELSE s

\* Mutant of Trim: the value is compared as it came.
TrimNothing(s) == s

\* String.prototype.trim
Trim(s) == TrimEnd(TrimStart(s))

(***************************************************************************)
(* JavaScript values: [t |-> type, v |-> payload].  The payload of a       *)
(* string is its chunks, of an object its members in insertion order, of   *)
(* an array its elements.                                                  *)
(***************************************************************************)
Undefined == [t |-> "undefined", v |-> <<>>]
Null == [t |-> "null", v |-> <<>>]
Num(c) == [t |-> "number", v |-> <<c>>]
Bool(c) == [t |-> "boolean", v |-> <<c>>]
Str(s) == [t |-> "string", v |-> s]
Obj(members) == [t |-> "object", v |-> members]
Arr(elements) == [t |-> "array", v |-> elements]
Member(key, val) == [k |-> key, val |-> val]

Nullish(x) == x.t \in {"undefined", "null"}

\* a ?? b
Coalesce(a, b) == IF Nullish(a) THEN b ELSE a

RECURSIVE LastMember(_, _)
LastMember(members, key) ==
    IF members = <<>> THEN Undefined
    ELSE IF members[Len(members)].k = key THEN members[Len(members)].val
    ELSE LastMember(SubSeq(members, 1, Len(members) - 1), key)

\* x.key for a non-nullish x: a member of an object, undefined otherwise.
GetProp(x, key) ==
    IF x.t = "object" THEN LastMember(x.v, key) ELSE Undefined

(***************************************************************************)
(* JSON.parse and JSON.stringify over chunk sequences.                     *)
(***************************************************************************)
Quote == "\""
NumberChunks == {"0", "5"}

ParseFail == [ok |-> FALSE, val |-> Undefined, rest |-> <<>>]
ParseOk(val, rest) == [ok |-> TRUE, val |-> val, rest |-> rest]

\* Index of the first Quote of s at or after position i, 0 when there is none.
RECURSIVE ClosingQuote(_, _)
ClosingQuote(s, i) ==
    IF i > Len(s) THEN 0
    ELSE IF s[i] = Quote THEN i
    ELSE ClosingQuote(s, i + 1)

\* s starts with a Quote: the string literal up to the next Quote.
ParseString(s) ==
    LET j == ClosingQuote(s, 2)
    IN  IF j = 0 THEN ParseFail
        ELSE ParseOk(Str(SubSeq(s, 2, j - 1)), SubSeq(s, j + 1, Len(s)))

RECURSIVE ParseValue(_)
RECURSIVE ParseMembers(_, _)
RECURSIVE ParseElements(_, _)

ParseValue(s0) ==
    LET s == TrimStart(s0)
    IN  IF s = <<>> THEN ParseFail
        ELSE IF Head(s) = "{" THEN
            LET t == TrimStart(Tail(s))
            IN  IF t # <<>> /\ Head(t) = "}" THEN ParseOk(Obj(<<>>), Tail(t))
                ELSE ParseMembers(t, <<>>)
        ELSE IF Head(s) = "[" THEN
            LET t == TrimStart(Tail(s))
            IN  IF t # <<>> /\ Head(t) = "]" THEN ParseOk(Arr(<<>>), Tail(t))
                ELSE ParseElements(t, <<>>)
        ELSE IF Head(s) = Quote THEN ParseString(s)
        ELSE IF Head(s) = "null" THEN ParseOk(Null, Tail(s))
        ELSE IF Head(s) \in {"true", "false"} THEN ParseOk(Bool(Head(s)), Tail(s))
        ELSE IF Head(s) \in NumberChunks THEN ParseOk(Num(Head(s)), Tail(s))
        ELSE ParseFail

\* The members of an object after its "{", up to and including its "}".
ParseMembers(s0, acc) ==
    LET s == TrimStart(s0)
    IN  IF s = <<>> \/ Head(s) # Quote THEN ParseFail
        ELSE
        LET key == ParseString(s)
            c == TrimStart(key.rest)
        IN  IF ~key.ok \/ c = <<>> \/ Head(c) # ":" THEN ParseFail
            ELSE
            LET val == ParseValue(Tail(c))
                d == TrimStart(val.rest)
                members == Append(acc, Member(key.val.v, val.val))
            IN  IF ~val.ok \/ d = <<>> THEN ParseFail
                ELSE IF Head(d) = "," THEN ParseMembers(Tail(d), members)
                ELSE IF Head(d) = "}" THEN ParseOk(Obj(members), Tail(d))
                ELSE ParseFail

\* The elements of an array after its "[", up to and including its "]".
ParseElements(s0, acc) ==
    LET val == ParseValue(s0)
        d == TrimStart(val.rest)
        elements == Append(acc, val.val)
    IN  IF ~val.ok \/ d = <<>> THEN ParseFail
        ELSE IF Head(d) = "," THEN ParseElements(Tail(d), elements)
        ELSE IF Head(d) = "]" THEN ParseOk(Arr(elements), Tail(d))
        ELSE ParseFail

\* JSON.parse(text): ok is FALSE where JSON.parse throws a SyntaxError.
JSONParse(text) ==
    LET r == ParseValue(text)
    IN  IF r.ok /\ TrimStart(r.rest) = <<>>
        THEN [ok |-> TRUE, val |-> r.val]
        ELSE [ok |-> FALSE, val |-> Undefined]

RECURSIVE StringifyText(_)
RECURSIVE StringifyMembers(_, _)
RECURSIVE StringifyElements(_, _)

\* The JSON text of a value that has one (anything but undefined).
StringifyText(x) ==
    IF x.t = "null" THEN <<"null">>
    ELSE IF x.t \in {"number", "boolean"} THEN x.v
    ELSE IF x.t = "string" THEN <<Quote>> \o x.v \o <<Quote>>
    ELSE IF x.t = "array" THEN <<"[">> \o StringifyElements(x.v, TRUE) \o <<"]">>
    ELSE <<"{">> \o StringifyMembers(x.v, TRUE) \o <<"}">>

\* Members whose value is undefined are left out.
StringifyMembers(members, first) ==
    IF members = <<>> THEN <<>>
    ELSE IF Head(members).val.t = "undefined"
    THEN StringifyMembers(Tail(members), first)
    ELSE (IF first THEN <<>> ELSE <<",">>)
         \o <<Quote>> \o Head(members).k \o <<Quote, ":">>
         \o StringifyText(Head(members).val)
         \o StringifyMembers(Tail(members), FALSE)

\* An undefined element is written null.
StringifyElements(elements, first) ==
    IF elements = <<>> THEN <<>>
    ELSE (IF first THEN <<>> ELSE <<",">>)
         \o StringifyText(Coalesce(Head(elements), Null))
         \o StringifyElements(Tail(elements), FALSE)

\* JSON.stringify(x): a string, or undefined for undefined.
JSONStringify(x) ==
    IF x.t = "undefined" THEN Undefined ELSE Str(StringifyText(x))

\* The text JSON.parse reads from its argument, a string or undefined.
StringOf(x) == IF x.t = "undefined" THEN <<"undefined">> ELSE x.v

(***************************************************************************)
(* The enumerations and the normalisation of the AI answer (the body of    *)
(* the analyze step after the AI call).                                    *)
(***************************************************************************)
validSentiments == {<<"Positive">>, <<"Neutral">>, <<"Negative">>}
validThemes ==
    {<<"UI/UX">>, <<"Bug">>, <<"Performance">>, <<"Feature", " ", "Request">>}

DefaultSentiment == <<"Neutral">>
DefaultTheme == <<"Feature", " ", "Request">>

\* aiResponse?.response
ResponseOf(aiResponse) ==
    IF Nullish(aiResponse) THEN Undefined
    ELSE GetProp(aiResponse, <<"response">>)

\* rawText: the response field when it is a string, else the serialised envelope.
RawText(aiResponse) ==
    IF ResponseOf(aiResponse).t = "string"
    THEN ResponseOf(aiResponse)
    ELSE JSONStringify(aiResponse)

\* Mutant of Validated: the membership test is left out.
ValidatedUnchecked(value, valid, default) == value

\* A field accepted only when it is a member of its enumeration.
Validated(value, valid, default) ==
    IF value \in valid THEN value ELSE default

\* The try block: threw is TRUE where JSON.parse, the property access on a
\* null result or .trim() on a non-string throws.
TryBlock(rawText) ==
    LET p == JSONParse(StringOf(rawText))
        Threw == [threw |-> TRUE, sentiment |-> DefaultSentiment,
                  theme |-> DefaultTheme]
    IN  IF ~p.ok \/ Nullish(p.val) THEN Threw
        ELSE
        LET s == Coalesce(GetProp(p.val, <<"sentiment">>), Str(<<>>))
            t == Coalesce(GetProp(p.val, <<"theme">>), Str(<<>>))
        IN  IF s.t # "string" \/ t.t # "string" THEN Threw
            ELSE [threw |-> FALSE,
                  sentiment |-> Validated(Trim(s.v), validSentiments,
                                          DefaultSentiment),
                  theme |-> Validated(Trim(t.v), validThemes, DefaultTheme)]

\* Mutant of CatchBlock: the error is thrown again after the warning.
CatchRethrows(try) ==
    [ok |-> FALSE, sentiment |-> DefaultSentiment, theme |-> DefaultTheme,
     warned |-> TRUE]

\* What the catch block leaves: the defaults, a warning logged, no rethrow.
CatchBlock(try) ==
    [ok |-> TRUE, sentiment |-> DefaultSentiment, theme |-> DefaultTheme,
     warned |-> TRUE]

\* The analyze step's body from the AI answer on: ok is FALSE where it throws.
Normalize(aiResponse) ==
    LET try == TryBlock(RawText(aiResponse))
    IN  IF try.threw THEN CatchBlock(try)
        ELSE [ok |-> TRUE, sentiment |-> try.sentiment, theme |-> try.theme,
              warned |-> FALSE]

Classification(n) == [sentiment |-> n.sentiment, theme |-> n.theme]


(***************************************************************************)
(* Feedback items, batches and AI answers the runs are checked on.         *)
(***************************************************************************)
Feedback(source, content) ==
    Obj(<<Member(<<"source">>, source), Member(<<"content">>, content)>>)

\* Mutant of Falsy: the empty string passes.
FalsyWhenNullish(x) == Nullish(x)

\* !x of a string, undefined or null
Falsy(x) == Nullish(x) \/ x.v = <<>>

SourceOf(item) == GetProp(item, <<"source">>)
ContentOf(item) == GetProp(item, <<"content">>)

\* Mutant of Malformed: the content is not looked at.
MalformedBySourceOnly(item) == Nullish(item) \/ Falsy(SourceOf(item))

\* The loop's re-check: !item || !item.source || !item.content
Malformed(item) ==
    Nullish(item) \/ Falsy(SourceOf(item)) \/ Falsy(ContentOf(item))

WellFormedItems ==
    {Feedback(Str(<<"A">>), Str(<<"x">>)),
     Feedback(Str(<<"A">>), Str(<<"y">>)),
     Feedback(Str(<<"B">>), Str(<<"x">>))}

MalformedItems ==
    {Null,
     Feedback(Undefined, Str(<<"x">>)),
     Feedback(Str(<<"A">>), Str(<<>>))}

ItemValues == WellFormedItems \cup MalformedItems

RECURSIVE SeqsUpTo(_, _)
SeqsUpTo(S, n) ==
    IF n = 0 THEN {<<>>}
    ELSE LET shorter == SeqsUpTo(S, n - 1)
         IN  shorter \cup {Append(q, x) : q \in shorter, x \in S}

\* event.payload?.items: an array of items, nothing, or something else.
Payloads ==
    {Arr(q) : q \in SeqsUpTo(ItemValues, MaxItems)} \cup {Undefined, Str(<<"x">>)}

Quoted(s) == <<Quote>> \o s \o <<Quote>>

\* {"response": text}
Envelope(text) == Obj(<<Member(<<"response">>, Str(text))>>)

\* Values a "sentiment" or "theme" member is given; undefined leaves it out.
FieldValues ==
    {Undefined, Null, Num("5"),
     Str(<<>>), Str(<<"Positive">>), Str(<<" ", "Negative", " ">>),
     Str(<<"positive">>), Str(<<"VeryHappy">>),
     Str(<<"Bug">>), Str(<<"UI/UX", " ">>), Str(<<"Feature", " ", "Request">>),
     Str(<<"bug">>)}

Fields(s, t) == <<Member(<<"sentiment">>, s), Member(<<"theme">>, t)>>

\* Texts that are no JSON, or JSON of something else than an object.
OtherTexts ==
    {<<"not", " ", "json">>, <<>>, <<"{">>,
     <<"{">> \o Quoted(<<"sentiment">>) \o <<":">> \o Quoted(<<"Positive">>),
     <<"Sure", ":", " ", "{">> \o Quoted(<<"sentiment">>) \o <<":">>
         \o Quoted(<<"Positive">>) \o <<"}">>,
     <<"null">>, <<"5">>, Quoted(<<"Positive">>), <<"[", "]">>, <<"{", "}">>,
     <<" ", "{">> \o Quoted(<<"theme">>) \o <<":">> \o Quoted(<<"Bug">>)
         \o <<"}", " ">>}

\* Every answer of the AI binding the normalisation is checked on.
AiResponses ==
    {Envelope(StringifyText(Obj(Fields(s, t)))) : s \in FieldValues, t \in FieldValues}
    \cup {Envelope(text) : text \in OtherTexts}
    \cup {Obj(<<Member(<<"response">>, r)>> \o Fields(s, t)) :
            r \in {Undefined, Null, Num("5"), Obj(<<>>)},
            s \in {Undefined, Str(<<"Positive">>), Str(<<"sad">>)},
            t \in {Undefined, Str(<<"Bug">>), Num("5")}}
    \cup {Undefined, Null, Num("5"), Str(<<"Positive">>), Arr(<<>>)}

\* The answers the runs of a whole batch are checked on.
RunResponses ==
    {Envelope(StringifyText(Obj(Fields(Str(<<"Positive">>), Str(<<"Bug">>))))),
     Envelope(<<"not", " ", "json">>)}

(***************************************************************************)
(* State.                                                                  *)
(***************************************************************************)
Runs == {1, 2}

VARIABLES
    payloadItems, \* per run: event.payload?.items
    pc,           \* per run: absent, queued, loop, awaitAnalyze, awaitPersist,
                  \*          complete, errored
    idx,          \* per run: position of the for loop in items (from 1)
    analysis,     \* per run: the const analysis of the current iteration
    inflight,     \* per run: the step.do calls not yet settled
    cache,        \* per run: the engine's checkpoints, result by step name
    crashes,      \* per run: restarts so far
    store,        \* the rows of the feedback table, in insertion order
    clock,        \* the time Date reads; it moves with each AI answer
    prov,         \* history: the run and item each row was inserted for, when
                  \*          its persist step was called and its attempt began
    issued,       \* history, per run: the step.do calls made (item, kind, name)
    settled,      \* history, per run: the step.do calls resolved since the
                  \*          last (re)start (item, kind, "ran" or "cached")
    completed,    \* history, per run: the steps whose body has returned
    interrupted,  \* history, per run: the items with an INSERT executed by
                  \*          an attempt that a crash cut short
    exhausted,    \* history, per run: the steps that ran out of retries
    failures,     \* history, per run: whether a step attempt has failed
    aiCalls,      \* history, per run: AI.run calls per item
    requests,     \* history: the requests sent to AI.run (run, item, request)
    lastResp,     \* history, per run: the last AI answer and its item
    submitted,    \* history, per run: the time the batch was submitted
    http          \* history: the HTTP exchanges of the Worker, in order

vars ==
    <<payloadItems, pc, idx, analysis, inflight, cache, crashes, store, clock,
      prov, issued, settled, completed, interrupted, exhausted, failures,
      aiCalls, requests, lastResp, submitted, http>>

NoAnalysis == [sentiment |-> <<>>, theme |-> <<>>]
NoResp == [item |-> 0, resp |-> Undefined]

\* const items = event.payload?.items ?? []
ItemsOf(r) == Coalesce(payloadItems[r], Arr(<<>>))

ItemAt(r, i) == ItemsOf(r).v[i]

AnalyzeStepName(item) == <<"analyze feedback from ">> \o SourceOf(item).v

\* Mutant of PersistStepName: the name carries a value that differs from one
\* invocation of run to the next.
PersistStepNamePerInvocation(item) ==
    <<"persist feedback from ">> \o SourceOf(item).v \o <<ToString(crashes[1])>>

\* Mutant of PersistStepName: the name is built from the content, so that
\* items of one source have persist steps of their own.
PersistStepNameByContent(item) ==
    <<"persist feedback from ">> \o ContentOf(item).v

PersistStepName(item) == <<"persist feedback from ">> \o SourceOf(item).v

\* Mutant of IsCached: an engine that keeps no checkpoint over a restart
\* finds none.
CachedUntilRestart(r, name) == crashes[r] = 0 /\ \E c \in cache[r] : c.name = name

IsCached(r, name) == \E c \in cache[r] : c.name = name
CachedResult(r, name) == (CHOOSE c \in cache[r] : c.name = name).result

\* A step.do call as the engine holds it, called at the end of the step
\* that makes it.
StepCall(i, kind, name, arg) ==
    [item |-> i, kind |-> kind, name |-> name, phase |-> "issued",
     attempt |-> 0, now |-> 0, arg |-> arg, called |-> clock', began |-> 0]

InitRun(r, items) ==
    /\ payloadItems = [q \in Runs |-> IF q = r THEN items ELSE Undefined]
    /\ pc = [q \in Runs |-> IF q = r THEN "queued" ELSE "absent"]
    /\ idx = [q \in Runs |-> 0]
    /\ analysis = [q \in Runs |-> NoAnalysis]
    /\ inflight = [q \in Runs |-> {}]
    /\ cache = [q \in Runs |-> {}]
    /\ crashes = [q \in Runs |-> 0]
    /\ store = <<>>
    /\ clock = 0
    /\ prov = <<>>
    /\ issued = [q \in Runs |-> {}]
    /\ settled = [q \in Runs |-> {}]
    /\ completed = [q \in Runs |-> {}]
    /\ interrupted = [q \in Runs |-> {}]
    /\ exhausted = [q \in Runs |-> {}]
    /\ failures = [q \in Runs |-> FALSE]
    /\ aiCalls = [q \in Runs |-> [i \in 1..MaxItems |-> 0]]
    /\ requests = {}
    /\ lastResp = [q \in Runs |-> NoResp]
    /\ submitted = [q \in Runs |-> 0]
    /\ http = <<>>

\* One run, handed any payload.
Init == \E items \in Payloads : InitRun(1, items)

(***************************************************************************)
(* MyWorkflow.run between two awaits.                                      *)
(***************************************************************************)
\* run is entered (again after a restart): the guard on items.
RunStart(r) ==
    /\ pc[r] = "queued"
    /\ pc' = [pc EXCEPT ![r] =
                IF ItemsOf(r).t # "array" \/ Len(ItemsOf(r).v) = 0
                THEN "complete" ELSE "loop"]
    /\ idx' = [idx EXCEPT ![r] = 1]
    /\ UNCHANGED <<http, payloadItems, analysis, inflight, cache, crashes, store,
                   clock, prov, issued, settled, completed, interrupted,
                   exhausted, failures, aiCalls, requests, lastResp, submitted>>

\* Mutant of LoopEnd: past the last item run calls one more step before it
\* returns.
LoopEndIssuing(r) ==
    /\ pc[r] = "loop"
    /\ idx[r] > Len(ItemsOf(r).v)
    /\ pc' = [pc EXCEPT ![r] = "complete"]
    /\ issued' = [issued EXCEPT ![r] =
                    @ \cup {[item |-> idx[r], kind |-> "persist",
                             name |-> <<"summary">>]}]
    /\ UNCHANGED <<http, payloadItems, idx, analysis, inflight, cache, crashes, store,
                   clock, prov, settled, completed, interrupted,
                   exhausted, failures, aiCalls, requests, lastResp, submitted>>

\* The for loop is past the last item: run returns.
LoopEnd(r) ==
    /\ pc[r] = "loop"
    /\ idx[r] > Len(ItemsOf(r).v)
    /\ pc' = [pc EXCEPT ![r] = "complete"]
    /\ UNCHANGED <<http, payloadItems, idx, analysis, inflight, cache, crashes, store,
                   clock, prov, issued, settled, completed, interrupted,
                   exhausted, failures, aiCalls, requests, lastResp, submitted>>

\* A malformed item: continue.
LoopSkip(r) ==
    /\ pc[r] = "loop"
    /\ idx[r] <= Len(ItemsOf(r).v)
    /\ Malformed(ItemAt(r, idx[r]))
    /\ idx' = [idx EXCEPT ![r] = @ + 1]
    /\ UNCHANGED <<http, payloadItems, pc, analysis, inflight, cache, crashes, store,
                   clock, prov, issued, settled, completed, interrupted,
                   exhausted, failures, aiCalls, requests, lastResp, submitted>>

\* A well-formed item: await step.do("analyze feedback from ...", ...).
IssueAnalyze(r) ==
    /\ clock' = clock
    /\ pc[r] = "loop"
    /\ idx[r] <= Len(ItemsOf(r).v)
    /\ ~Malformed(ItemAt(r, idx[r]))
    /\ LET name == AnalyzeStepName(ItemAt(r, idx[r]))
       IN  /\ inflight' = [inflight EXCEPT ![r] =
                             @ \cup {StepCall(idx[r], "analyze", name, NoAnalysis)}]
           /\ issued' = [issued EXCEPT ![r] =
                           @ \cup {[item |-> idx[r], kind |-> "analyze",
                                    name |-> name]}]
    /\ pc' = [pc EXCEPT ![r] = "awaitAnalyze"]
    /\ UNCHANGED <<http, payloadItems, idx, analysis, cache, crashes, store,
                   prov, settled, completed, interrupted, exhausted,
                   failures, aiCalls, requests, lastResp, submitted>>

\* Mutant of PersistAwaited: step.do is called and its promise dropped.
PersistNotAwaited == FALSE

\* The persist step is awaited before the loop goes on.
PersistAwaited == TRUE

\* The analyze step of e resolves with result: analysis is bound and
\* step.do("persist feedback from ...", ...) is called and awaited.
AnalyzeSettled(r, e, result, how) ==
    LET name == PersistStepName(ItemAt(r, e.item))
    IN  /\ analysis' = [analysis EXCEPT ![r] = result]
        /\ inflight' = [inflight EXCEPT ![r] =
                          (@ \ {e}) \cup {StepCall(e.item, "persist", name, result)}]
        /\ issued' = [issued EXCEPT ![r] =
                        @ \cup {[item |-> e.item, kind |-> "persist",
                                 name |-> name]}]
        /\ settled' = [settled EXCEPT ![r] = @ \cup {<<e.item, "analyze", how>>}]
        /\ pc' = [pc EXCEPT ![r] =
                    IF PersistAwaited THEN "awaitPersist" ELSE "loop"]
        /\ idx' = [idx EXCEPT ![r] = IF PersistAwaited THEN @ ELSE @ + 1]

\* The persist step of e resolves: the loop goes on to the next item.
PersistSettled(r, e, how) ==
    /\ inflight' = [inflight EXCEPT ![r] = @ \ {e}]
    /\ settled' = [settled EXCEPT ![r] = @ \cup {<<e.item, "persist", how>>}]
    /\ IF pc[r] = "awaitPersist" /\ idx[r] = e.item
       THEN /\ pc' = [pc EXCEPT ![r] = "loop"]
            /\ idx' = [idx EXCEPT ![r] = @ + 1]
       ELSE UNCHANGED <<pc, idx>>
    /\ UNCHANGED <<analysis, issued>>

Settled(r, e, result, how) ==
    IF e.kind = "analyze" THEN AnalyzeSettled(r, e, result, how)
    ELSE PersistSettled(r, e, how)

\* run is awaiting the call e.
Awaiting(r, e) ==
    /\ idx[r] = e.item
    /\ pc[r] = (IF e.kind = "analyze" THEN "awaitAnalyze" ELSE "awaitPersist")

\* The body of e threw.  The engine runs it again while retries are left;
\* after the last one step.do rejects, and run, which catches nothing,
\* rejects with it.
Thrown(r, e) ==
    /\ failures' = [failures EXCEPT ![r] = TRUE]
    /\ IF e.attempt < MaxRetries
       THEN /\ inflight' = [inflight EXCEPT ![r] =
                              (@ \ {e}) \cup {[e EXCEPT !.phase = "issued",
                                                        !.attempt = @ + 1]}]
            /\ UNCHANGED <<pc, exhausted>>
       ELSE /\ inflight' = [inflight EXCEPT ![r] = @ \ {e}]
            /\ exhausted' = [exhausted EXCEPT ![r] = @ \cup {<<e.item, e.kind>>}]
            /\ pc' = [pc EXCEPT ![r] = IF Awaiting(r, e) THEN "errored" ELSE @]
    /\ UNCHANGED <<idx, analysis, issued, settled>>

(***************************************************************************)
(* The engine and the bindings.                                            *)
(***************************************************************************)
\* Mutant of Checkpoint: the engine keys its checkpoints by the step's name
\* alone, for all instances of the workflow together.
CheckpointShared(r, e, result) ==
    /\ cache' = [q \in Runs |->
                   {c \in cache[q] : c.name # e.name}
                   \cup {[name |-> e.name, result |-> result]}]
    /\ completed' = [completed EXCEPT ![r] = @ \cup {<<e.item, e.kind>>}]

\* The body of e has returned result: the engine checkpoints it under the
\* step's name.
Checkpoint(r, e, result) ==
    /\ cache' = [cache EXCEPT ![r] =
                   {c \in @ : c.name # e.name}
                   \cup {[name |-> e.name, result |-> result]}]
    /\ completed' = [completed EXCEPT ![r] = @ \cup {<<e.item, e.kind>>}]

\* A step whose name has a checkpoint resolves with it; its body is not run.
StepFromCache(r, e) ==
    /\ clock' = clock
    /\ e.phase = "issued"
    /\ IsCached(r, e.name)
    /\ Settled(r, e, CachedResult(r, e.name), "cached")
    /\ UNCHANGED <<http, payloadItems, cache, crashes, store, prov,
                   completed, interrupted, exhausted, failures, aiCalls, requests,
                   lastResp, submitted>>

\* Mutant of Now: the time is read where step.do is called, outside the
\* callback, once for all attempts.
NowAtStepCall(r, e) == e.called

\* const now = new Date().toISOString(): the time as the persist body reads
\* it, a count of milliseconds.
Now(r, e) == clock

\* The system instruction of the analyze step (a constant of the code).
SystemPrompt ==
    <<"You are an assistant that categorizes user feedback for a product team. ",
      "Always respond with STRICT, VALID JSON only. Do not include explanations or extra text.">>

\* Array.prototype.join("\n") of strings.
RECURSIVE JoinLines(_)
JoinLines(lines) ==
    IF lines = <<>> THEN <<>>
    ELSE IF Len(lines) = 1 THEN lines[1]
    ELSE lines[1] \o <<"\n">> \o JoinLines(Tail(lines))

\* The fixed lines of the user prompt.
PromptHead ==
    << <<"Analyze the following user feedback text.">>,
       <<>>,
       <<"Return a JSON object with exactly these keys:">>,
       <<"- \"sentiment\": one of [\"Positive\", \"Neutral\", \"Negative\"]">>,
       <<"- \"theme\": one of [\"UI/UX\", \"Bug\", \"Performance\", \"Feature Request\"]">>,
       <<>>,
       <<"Pick the single best sentiment and single best theme.">>,
       <<>>,
       <<"Feedback text:">> >>

\* Mutant of UserPrompt: the prompt names the source of the feedback too.
UserPromptWithSource(item) ==
    JoinLines(PromptHead \o
              << <<"\"\"\"">> \o SourceOf(item).v \o <<": ">>
                 \o ContentOf(item).v \o <<"\"\"\"">> >>)

\* The user prompt: the fixed lines, then the content between triple quotes.
UserPrompt(item) ==
    JoinLines(PromptHead \o << <<"\"\"\"">> \o ContentOf(item).v \o <<"\"\"\"">> >>)

\* The arguments of this.env.AI.run for an item.
AiRequest(item) ==
    [model |-> "@cf/meta/llama-3-8b-instruct",
     messages |-> << [role |-> "system", content |-> SystemPrompt],
                     [role |-> "user", content |-> UserPrompt(item)] >>]

\* Mutant of StepStart: a persist body that runs again after a failed
\* attempt calls AI.run itself before it inserts.
StepStartReclassifying(r, e) ==
    /\ e.phase = "issued"
    /\ ~IsCached(r, e.name)
    /\ inflight' = [inflight EXCEPT ![r] =
                      (@ \ {e}) \cup
                      {[e EXCEPT !.phase = "running",
                                 !.began = clock,
                                 !.now = IF e.kind = "persist" THEN Now(r, e) ELSE 0]}]
    /\ aiCalls' = [aiCalls EXCEPT ![r][e.item] =
                     IF e.kind = "analyze" \/ e.attempt > 0 THEN @ + 1 ELSE @]
    /\ requests' = IF e.kind = "analyze"
                    THEN requests \cup {[run |-> r, item |-> e.item,
                                         request |-> AiRequest(ItemAt(r, e.item))]}
                    ELSE requests
    /\ UNCHANGED <<http, payloadItems, pc, idx, analysis, cache, crashes, store,
                   clock, prov, issued, settled, completed, interrupted,
                   exhausted, failures, lastResp, submitted>>

\* The body of a step starts: analyze sends its AI.run call, persist reads
\* the time and sends its INSERT.
StepStart(r, e) ==
    /\ e.phase = "issued"
    /\ ~IsCached(r, e.name)
    /\ inflight' = [inflight EXCEPT ![r] =
                      (@ \ {e}) \cup
                      {[e EXCEPT !.phase = "running",
                                 !.began = clock,
                                 !.now = IF e.kind = "persist" THEN Now(r, e) ELSE 0]}]
    /\ aiCalls' = [aiCalls EXCEPT ![r][e.item] =
                     IF e.kind = "analyze" THEN @ + 1 ELSE @]
    /\ requests' = IF e.kind = "analyze"
                    THEN requests \cup {[run |-> r, item |-> e.item,
                                         request |-> AiRequest(ItemAt(r, e.item))]}
                    ELSE requests
    /\ UNCHANGED <<http, payloadItems, pc, idx, analysis, cache, crashes, store,
                   clock, prov, issued, settled, completed, interrupted,
                   exhausted, failures, lastResp, submitted>>

\* AI.run answers: the rest of the analyze body normalises the answer.
AiRespond(r, e, resp) ==
    /\ e.kind = "analyze"
    /\ e.phase = "running"
    /\ clock' = clock + 1
    /\ lastResp' = [lastResp EXCEPT ![r] = [item |-> e.item, resp |-> resp]]
    /\ LET n == Normalize(resp)
       IN  IF n.ok
           THEN /\ Checkpoint(r, e, Classification(n))
                /\ Settled(r, e, Classification(n), "ran")
                /\ UNCHANGED <<exhausted, failures>>
           ELSE /\ Thrown(r, e)
                /\ UNCHANGED <<cache, completed>>
    /\ UNCHANGED <<http, payloadItems, crashes, store, prov, interrupted, aiCalls, requests,
                   submitted>>

\* Mutant of AiFail: the rejection of AI.run is caught like a parse error and
\* the defaults are returned.
AiFailSwallowed(r, e) ==
    /\ clock' = clock
    /\ e.kind = "analyze"
    /\ e.phase = "running"
    /\ Checkpoint(r, e, [sentiment |-> DefaultSentiment, theme |-> DefaultTheme])
    /\ Settled(r, e, [sentiment |-> DefaultSentiment, theme |-> DefaultTheme], "ran")
    /\ UNCHANGED <<http, payloadItems, crashes, store, prov, interrupted,
                   exhausted, failures, aiCalls, requests, lastResp, submitted>>

\* AI.run rejects (transport or service error), outside the try block.
AiFail(r, e) ==
    /\ e.kind = "analyze"
    /\ e.phase = "running"
    /\ Thrown(r, e)
    /\ UNCHANGED <<http, payloadItems, cache, crashes, store, clock, prov, completed,
                   interrupted, aiCalls, requests, lastResp, submitted>>

Row(id, item, an, now) ==
    [id |-> id, source |-> SourceOf(item).v, content |-> ContentOf(item).v,
     sentiment |-> an.sentiment, theme |-> an.theme, timestamp |-> now]

\* Mutant of DbInsert: INSERT OR REPLACE on the source, so that a row of the
\* same source is overwritten in place.
DbUpsert(r, e) ==
    /\ e.kind = "persist"
    /\ e.phase = "running"
    /\ LET item == ItemAt(r, e.item)
           same == {k \in 1..Len(store) : store[k].source = SourceOf(item).v}
       IN  IF same = {}
           THEN /\ store' = Append(store, Row(Len(store) + 1, item, e.arg, e.now))
                /\ prov' = Append(prov, [run |-> r, item |-> e.item,
                                         called |-> e.called, began |-> e.began])
           ELSE LET k == CHOOSE k \in same : TRUE
                IN  /\ store' = [store EXCEPT ![k] = Row(k, item, e.arg, e.now)]
                    /\ prov' = [prov EXCEPT ![k] =
                                  [run |-> r, item |-> e.item,
                                   called |-> e.called, began |-> e.began]]
    /\ inflight' = [inflight EXCEPT ![r] =
                      (@ \ {e}) \cup {[e EXCEPT !.phase = "inserted"]}]
    /\ UNCHANGED <<http, payloadItems, pc, idx, analysis, cache, crashes, clock,
                   issued, settled, completed, interrupted, exhausted, failures,
                   aiCalls, requests, lastResp, submitted>>

\* Mutant of DbInsert: the persist body runs its statement twice.
DbInsertTwice(r, e) ==
    /\ e.kind = "persist"
    /\ e.phase = "running"
    /\ LET row == Row(Len(store) + 1, ItemAt(r, e.item), e.arg, e.now)
           p == [run |-> r, item |-> e.item, called |-> e.called,
                 began |-> e.began]
       IN  /\ store' = store \o <<row, [row EXCEPT !.id = @ + 1]>>
           /\ prov' = prov \o <<p, p>>
    /\ inflight' = [inflight EXCEPT ![r] =
                      (@ \ {e}) \cup {[e EXCEPT !.phase = "inserted"]}]
    /\ UNCHANGED <<http, payloadItems, pc, idx, analysis, cache, crashes, clock,
                   issued, settled, completed, interrupted, exhausted, failures,
                   aiCalls, requests, lastResp, submitted>>

\* D1 executes the INSERT of a persist body.
DbInsert(r, e) ==
    /\ e.kind = "persist"
    /\ e.phase = "running"
    /\ store' = Append(store, Row(Len(store) + 1, ItemAt(r, e.item), e.arg, e.now))
    /\ prov' = Append(prov, [run |-> r, item |-> e.item, called |-> e.called,
                             began |-> e.began])
    /\ inflight' = [inflight EXCEPT ![r] =
                      (@ \ {e}) \cup {[e EXCEPT !.phase = "inserted"]}]
    /\ UNCHANGED <<http, payloadItems, pc, idx, analysis, cache, crashes, clock,
                   issued, settled, completed, interrupted, exhausted, failures,
                   aiCalls, requests, lastResp, submitted>>

\* The INSERT is acknowledged: the persist body returns and is checkpointed.
PersistReturn(r, e) ==
    /\ e.kind = "persist"
    /\ e.phase = "inserted"
    /\ Checkpoint(r, e, NoAnalysis)
    /\ Settled(r, e, NoAnalysis, "ran")
    /\ UNCHANGED <<http, payloadItems, crashes, store, clock, prov, interrupted,
                   exhausted, failures, aiCalls, requests, lastResp, submitted>>

\* D1 rejects the INSERT (unavailable, constraint): no row is written.
DbFail(r, e) ==
    /\ e.kind = "persist"
    /\ e.phase = "running"
    /\ Thrown(r, e)
    /\ UNCHANGED <<http, payloadItems, cache, crashes, store, clock, prov, completed,
                   interrupted, aiCalls, requests, lastResp, submitted>>

\* The engine loses the instance while a step is outstanding and restarts
\* it: run is entered again on the same event, with the checkpoints kept.
Crash(r) ==
    /\ pc[r] \in {"awaitAnalyze", "awaitPersist"}
    /\ crashes[r] < MaxCrashes
    /\ crashes' = [crashes EXCEPT ![r] = @ + 1]
    /\ pc' = [pc EXCEPT ![r] = "queued"]
    /\ idx' = [idx EXCEPT ![r] = 0]
    /\ analysis' = [analysis EXCEPT ![r] = NoAnalysis]
    /\ inflight' = [inflight EXCEPT ![r] = {}]
    /\ settled' = [settled EXCEPT ![r] = {}]
    /\ lastResp' = [lastResp EXCEPT ![r] = NoResp]
    /\ interrupted' = [interrupted EXCEPT ![r] =
                         @ \cup {e.item : e \in {f \in inflight[r] :
                                                    f.phase = "inserted"}}]
    /\ UNCHANGED <<http, payloadItems, cache, store, clock, prov, issued, completed,
                   exhausted, failures, aiCalls, requests, submitted>>

\* A step of run r, with the AI answering from Responses.
RunStep(r, Responses) ==
    \/ RunStart(r)
    \/ LoopEnd(r)
    \/ LoopSkip(r)
    \/ IssueAnalyze(r)
    \/ \E e \in inflight[r] : StepFromCache(r, e)
    \/ \E e \in inflight[r] : StepStart(r, e)
    \/ \E e \in inflight[r], resp \in Responses : AiRespond(r, e, resp)
    \/ \E e \in inflight[r] : AiFail(r, e)
    \/ \E e \in inflight[r] : DbInsert(r, e)
    \/ \E e \in inflight[r] : PersistReturn(r, e)
    \/ \E e \in inflight[r] : DbFail(r, e)
    \/ Crash(r)

Next == \E r \in Runs : RunStep(r, RunResponses)

Spec == Init /\ [][Next]_vars

\* One run over one well-formed item, alone or after a malformed one, the
\* AI answering anything.
InitClassify ==
    \E item \in WellFormedItems :
        \E items \in {<<item>>} \cup {<<m, item>> : m \in MalformedItems} :
            InitRun(1, Arr(items))

NextClassify == \E r \in Runs : RunStep(r, AiResponses)

SpecClassify == InitClassify /\ [][NextClassify]_vars

(***************************************************************************)
(* Runs with time passing between their steps.                             *)
(***************************************************************************)
\* A millisecond passes.
Tick ==
    /\ clock < MaxClock
    /\ clock' = clock + 1
    /\ UNCHANGED <<http, payloadItems, pc, idx, analysis, inflight, cache,
                   crashes, store, prov, issued, settled, completed,
                   interrupted, exhausted, failures, aiCalls, requests, lastResp,
                   submitted>>

\* One run over one item, alone or after a malformed one, or over two
\* items of different sources.
InitClock ==
    \E items \in {<<Feedback(Str(<<"A">>), Str(<<"x">>))>>,
                  <<Null, Feedback(Str(<<"A">>), Str(<<"x">>))>>,
                  <<Feedback(Str(<<"A">>), Str(<<"x">>)),
                    Feedback(Str(<<"B">>), Str(<<"x">>))>>} :
        InitRun(1, Arr(items))

NextClock == Tick \/ \E r \in Runs : RunStep(r, RunResponses)

SpecClock == InitClock /\ [][NextClock]_vars

(***************************************************************************)
(* Runs under fair scheduling: the engine keeps taking the steps that are  *)
(* possible, and a service that is called again and again answers          *)
(* successfully in the end.                                                *)
(***************************************************************************)
AiAnswers(r) == \E e \in inflight[r], resp \in RunResponses : AiRespond(r, e, resp)

DbExecutes(r) == \E e \in inflight[r] : DbInsert(r, e)

Fairness ==
    /\ WF_vars(Next)
    /\ \A r \in Runs : SF_vars(AiAnswers(r)) /\ SF_vars(DbExecutes(r))

SpecLive == Spec /\ Fairness

(***************************************************************************)
(* The Worker: POST /ingest.                                               *)
(***************************************************************************)
RECURSIVE StringCtor(_)
RECURSIVE JoinElements(_, _)

\* String(x)
StringCtor(x) ==
    IF x.t \in {"string", "number", "boolean"} THEN x.v
    ELSE IF x.t = "null" THEN <<"null">>
    ELSE IF x.t = "undefined" THEN <<"undefined">>
    ELSE IF x.t = "array" THEN JoinElements(x.v, TRUE)
    ELSE <<"[object Object]">>

\* Array.prototype.join(","): null and undefined elements give nothing.
JoinElements(elements, first) ==
    IF elements = <<>> THEN <<>>
    ELSE (IF first THEN <<>> ELSE <<",">>)
         \o (IF Nullish(Head(elements)) THEN <<>> ELSE StringCtor(Head(elements)))
         \o JoinElements(Tail(elements), FALSE)

\* String((entry as any).key ?? "").trim()
EntryField(entry, key) ==
    Trim(StringCtor(Coalesce(GetProp(entry, key), Str(<<>>))))

\* The callback of body.map: an IncomingFeedback.
MapEntry(entry) ==
    Feedback(Str(EntryField(entry, <<"source">>)),
             Str(EntryField(entry, <<"content">>)))

\* Mutant of ValidItem: the content is not looked at.
ValidItemBySource(i) == Len(SourceOf(i).v) > 0

\* The predicate of items.filter
ValidItem(i) == Len(SourceOf(i).v) > 0 /\ Len(ContentOf(i).v) > 0

\* Reading a property of null or undefined throws a TypeError.
EntryThrows(entry) == Nullish(entry)

\* What POST /ingest makes of the text of a request body: the status of the
\* answer and, when a workflow instance is created, its params.items.  An
\* error thrown by the handler and caught nowhere is answered by the
\* runtime with status 500.
Ingest(text) ==
    LET body == JSONParse(text)
        reject == [status |-> 400, create |-> FALSE, items |-> <<>>]
    IN  IF ~body.ok THEN reject
        ELSE IF body.val.t # "array" THEN reject
        ELSE IF \E k \in 1..Len(body.val.v) : EntryThrows(body.val.v[k])
        THEN [status |-> 500, create |-> FALSE, items |-> <<>>]
        ELSE LET items == [k \in 1..Len(body.val.v) |-> MapEntry(body.val.v[k])]
                 validItems == SelectSeq(items, ValidItem)
             IN  IF Len(validItems) = 0 THEN reject
                 ELSE [status |-> 202, create |-> TRUE, items |-> validItems]

\* The id env.MY_WORKFLOW.create gives the new instance.
FreshInstance == CHOOSE r \in Runs : pc[r] = "absent" /\ \A q \in Runs : pc[q] = "absent" => r <= q

\* The exchanges of a route.
Exchanges(route) == {n \in 1..Len(http) : http[n].route = route}

\* A POST /ingest request with the body text; at most one request per run
\* the model has room for.
PostIngest(text) ==
    /\ Cardinality(Exchanges("POST /ingest")) < Cardinality(Runs)
    /\ LET res == Ingest(text)
           r == FreshInstance
       IN  /\ http' = Append(http, [route |-> "POST /ingest", body |-> text,
                                    status |-> res.status,
                                    instance |-> IF res.create THEN r ELSE 0,
                                    rows |-> <<>>])
           /\ IF res.create
              THEN /\ payloadItems' = [payloadItems EXCEPT ![r] = Arr(res.items)]
                   /\ pc' = [pc EXCEPT ![r] = "queued"]
                   /\ submitted' = [submitted EXCEPT ![r] = clock]
              ELSE UNCHANGED <<payloadItems, pc, submitted>>
    /\ UNCHANGED <<idx, analysis, inflight, cache, crashes, store, clock, prov,
                   issued, settled, completed, interrupted, exhausted, failures,
                   aiCalls, requests, lastResp>>

\* The entries of the request bodies.
Entries ==
    {Feedback(Str(<<"A">>), Str(<<"x">>)),
     Feedback(Str(<<" ", "B", " ">>), Str(<<"y", " ">>)),
     Feedback(Str(<<" ">>), Str(<<"x">>)),
     Feedback(Str(<<"A">>), Undefined),
     Feedback(Num("5"), Str(<<"x">>)),
     Feedback(Null, Str(<<>>)),
     Str(<<"A">>), Null}

\* The texts of the request bodies: arrays of entries, other JSON values and
\* texts that are no JSON.
Bodies ==
    {StringifyText(Arr(q)) : q \in SeqsUpTo(Entries, MaxItems)}
    \cup {StringifyText(v) : v \in {Null, Num("5"), Str(<<"A">>),
                                    Feedback(Str(<<"A">>), Str(<<"x">>))}}
    \cup {<<>>, <<"not", " ", "json">>, <<"[">>}

\* No run yet: the Worker has been deployed.
InitIngest == InitRun(0, Undefined)

NextIngest == \E text \in Bodies : PostIngest(text)

SpecIngest == InitIngest /\ [][NextIngest]_vars

(***************************************************************************)
(* The Worker: GET /results, with runs at work.                            *)
(***************************************************************************)
\* SQLite's datetime(timestamp): the time to the second, the fraction of
\* the second dropped.
Datetime(timestamp) == timestamp \div MsPerSecond

\* Row a comes before row b under ORDER BY datetime(timestamp) DESC, id DESC.
Before(a, b) ==
    \/ Datetime(a.timestamp) > Datetime(b.timestamp)
    \/ Datetime(a.timestamp) = Datetime(b.timestamp) /\ a.id > b.id

RECURSIVE OrderBy(_)
\* The rows of a set in that order.
OrderBy(rows) ==
    IF rows = {} THEN <<>>
    ELSE LET first == CHOOSE a \in rows : \A b \in rows \ {a} : Before(a, b)
         IN  <<first>> \o OrderBy(rows \ {first})

\* SELECT id, source, content, sentiment, theme, timestamp FROM feedback
\* ORDER BY datetime(timestamp) DESC, id DESC
Results == OrderBy({store[k] : k \in 1..Len(store)})

\* A GET /results request, once the table has a row and as long as the
\* answer differs from the last one given.
GetResults ==
    /\ store # <<>>
    /\ \A n \in Exchanges("GET /results") : http[n].rows # Results
    /\ http' = Append(http, [route |-> "GET /results", body |-> <<>>,
                             status |-> 200, instance |-> 0, rows |-> Results])
    /\ UNCHANGED <<payloadItems, pc, idx, analysis, inflight, cache, crashes,
                   store, clock, prov, issued, settled, completed, interrupted,
                   exhausted, failures, aiCalls, requests, lastResp, submitted>>

\* The bodies of the batches at work: one item each.
ResultBodies ==
    {StringifyText(Arr(<<Feedback(Str(<<"A">>), Str(<<"x">>))>>)),
     StringifyText(Arr(<<Feedback(Str(<<"B">>), Str(<<"x">>))>>))}

\* The AI answers the runs behind the Worker are checked on.
ResultResponses ==
    {Envelope(StringifyText(Obj(Fields(Str(<<"Positive">>), Str(<<"Bug">>)))))}

\* A step of run r when no step attempt fails and the engine does not
\* restart the instance.
RunStepNoFault(r, Responses) ==
    \/ RunStart(r)
    \/ LoopEnd(r)
    \/ IssueAnalyze(r)
    \/ \E e \in inflight[r] : StepStart(r, e)
    \/ \E e \in inflight[r], resp \in Responses : AiRespond(r, e, resp)
    \/ \E e \in inflight[r] : DbInsert(r, e)
    \/ \E e \in inflight[r] : PersistReturn(r, e)

NextResults ==
    \/ \E text \in ResultBodies : PostIngest(text)
    \/ GetResults
    \/ Tick
    \/ \E r \in Runs : RunStepNoFault(r, ResultResponses)

SpecResults == InitIngest /\ [][NextResults]_vars

(***************************************************************************)
(* The Worker with every route and the runs it starts at work, the first   *)
(* of them with step failures and restarts.                                *)
(***************************************************************************)
\* GET /: the dashboard page; no binding is used.
GetRoot ==
    /\ Exchanges("GET /") = {}
    /\ http' = Append(http, [route |-> "GET /", body |-> <<>>, status |-> 200,
                             instance |-> 0, rows |-> <<>>])
    /\ UNCHANGED <<payloadItems, pc, idx, analysis, inflight, cache, crashes,
                   store, clock, prov, issued, settled, completed, interrupted,
                   exhausted, failures, aiCalls, requests, lastResp, submitted>>

\* Mutant of NotFound: a request of another route is answered 404 and
\* hands its batch to a new workflow instance all the same.
NotFoundIngesting ==
    /\ Exchanges("other") = {}
    /\ \E r \in Runs : pc[r] = "absent"
    /\ http' = Append(http, [route |-> "other", body |-> <<>>, status |-> 404,
                             instance |-> 0, rows |-> <<>>])
    /\ payloadItems' = [payloadItems EXCEPT ![FreshInstance] =
                          Arr(<<Feedback(Str(<<"A">>), Str(<<"x">>))>>)]
    /\ pc' = [pc EXCEPT ![FreshInstance] = "queued"]
    /\ UNCHANGED <<idx, analysis, inflight, cache, crashes, store, clock, prov,
                   issued, settled, completed, interrupted, exhausted, failures,
                   aiCalls, requests, lastResp, submitted>>

\* Any other route or method: the "Not found." answer.
NotFound ==
    /\ Exchanges("other") = {}
    /\ http' = Append(http, [route |-> "other", body |-> <<>>, status |-> 404,
                             instance |-> 0, rows |-> <<>>])
    /\ UNCHANGED <<payloadItems, pc, idx, analysis, inflight, cache, crashes,
                   store, clock, prov, issued, settled, completed, interrupted,
                   exhausted, failures, aiCalls, requests, lastResp, submitted>>

\* The request bodies of the Worker at work: a batch of one item and an
\* empty array, which is rejected.
WorkerBodies ==
    {StringifyText(Arr(<<Feedback(Str(<<"A">>), Str(<<"x">>))>>)),
     StringifyText(Arr(<<>>))}

\* The requests other than POST /ingest are taken while the log of
\* exchanges is short.
NextWorker ==
    \/ \E text \in WorkerBodies : PostIngest(text)
    \/ Len(http) < MaxExchanges /\ GetResults
    \/ Len(http) < MaxExchanges /\ GetRoot
    \/ Len(http) < MaxExchanges /\ NotFound
    \/ \E r \in Runs :
          /\ RunStep(r, ResultResponses)
          /\ r # 1 => ~failures'[r] /\ crashes'[r] = 0

SpecWorker == InitIngest /\ [][NextWorker]_vars

(***************************************************************************)
(* Two instances at work at the same time, the first with step failures    *)
(* and restarts.                                                           *)
(***************************************************************************)
\* The batches of the two instances: they share a source and differ in the
\* contents.
PairBatches ==
    [q \in Runs |->
        IF q = 1
        THEN Arr(<<Null, Feedback(Str(<<"A">>), Str(<<"x">>))>>)
        ELSE Arr(<<Feedback(Str(<<"A">>), Str(<<"y">>)),
                   Feedback(Str(<<"B">>), Str(<<"x">>))>>)]

\* Both instances have been created and none has started.
InitPair ==
    /\ payloadItems = PairBatches
    /\ pc = [q \in Runs |-> "queued"]
    /\ idx = [q \in Runs |-> 0]
    /\ analysis = [q \in Runs |-> NoAnalysis]
    /\ inflight = [q \in Runs |-> {}]
    /\ cache = [q \in Runs |-> {}]
    /\ crashes = [q \in Runs |-> 0]
    /\ store = <<>>
    /\ clock = 0
    /\ prov = <<>>
    /\ issued = [q \in Runs |-> {}]
    /\ settled = [q \in Runs |-> {}]
    /\ completed = [q \in Runs |-> {}]
    /\ interrupted = [q \in Runs |-> {}]
    /\ exhausted = [q \in Runs |-> {}]
    /\ failures = [q \in Runs |-> FALSE]
    /\ aiCalls = [q \in Runs |-> [i \in 1..MaxItems |-> 0]]
    /\ requests = {}
    /\ lastResp = [q \in Runs |-> NoResp]
    /\ submitted = [q \in Runs |-> 0]
    /\ http = <<>>

\* The AI answers of the two instances: the first is given a text that is
\* no JSON, the second a payload of members, so that the classifications
\* of the two differ.
PairResponses ==
    [q \in Runs |->
        IF q = 1
        THEN {Envelope(<<"not", " ", "json">>)}
        ELSE {Envelope(StringifyText(Obj(Fields(Str(<<"Positive">>),
                                                 Str(<<"Bug">>)))))}]

NextPair ==
    \E r \in Runs :
        /\ RunStep(r, PairResponses[r])
        /\ r # 1 => ~failures'[r] /\ crashes'[r] = 0

SpecPair == InitPair /\ [][NextPair]_vars

(***************************************************************************)
(* A run handed its payload directly, not through POST /ingest.            *)
(***************************************************************************)
\* Items nothing has trimmed: fields of white space only, padded fields,
\* and the kinds the other runs are checked on.
DirectItems ==
    {Feedback(Str(<<" ">>), Str(<<"x">>)),
     Feedback(Str(<<"A">>), Str(<<" ", " ">>)),
     Feedback(Str(<<" ", "A">>), Str(<<"x", " ">>)),
     Feedback(Str(<<"A">>), Str(<<"x">>)),
     Feedback(Str(<<>>), Str(<<"x">>)),
     Feedback(Str(<<"A">>), Undefined),
     Null}

\* One run over one such item, or over a well-formed item after it.
InitDirect ==
    \E item \in DirectItems :
        \E items \in {<<item>>, <<item, Feedback(Str(<<"B">>), Str(<<"x">>))>>} :
            InitRun(1, Arr(items))

NextDirect == \E r \in Runs : RunStep(r, ResultResponses)

SpecDirect == InitDirect /\ [][NextDirect]_vars

\* The same run under the scheduling of Fairness: a step of Next is possible
\* exactly when a step of NextDirect is, and every step of NextDirect is one
\* of Next.
SpecDirectLive == SpecDirect /\ Fairness

(***************************************************************************)
(* Vocabulary of the properties.                                           *)
(***************************************************************************)
ArrayItems(r) == IF ItemsOf(r).t = "array" THEN ItemsOf(r).v ELSE <<>>

\* The positions of the well-formed items of run r's batch.
WellFormedIdx(r) ==
    {i \in 1..Len(ArrayItems(r)) : ~Malformed(ArrayItems(r)[i])}

\* The positions in store of the rows inserted for item i of run r.
RowsOf(r, i) ==
    {k \in 1..Len(store) : prov[k].run = r /\ prov[k].item = i}

RowsOfRun(r) == {k \in 1..Len(store) : prov[k].run = r}

SettledSteps(r) == {<<s[1], s[2]>> : s \in settled[r]}

DistinctSources(r) ==
    \A i, j \in WellFormedIdx(r) :
        i # j => SourceOf(ArrayItems(r)[i]) # SourceOf(ArrayItems(r)[j])

InEnum(c) == c.sentiment \in validSentiments /\ c.theme \in validThemes

DefaultClassification == [sentiment |-> DefaultSentiment, theme |-> DefaultTheme]

\* What JSON.parse makes of the text the analyze body reads from resp.
ParsedOf(resp) == JSONParse(StringOf(RawText(resp)))

ParsesAsObject(resp) == ParsedOf(resp).ok /\ ParsedOf(resp).val.t = "object"

\* The payload of resp is an object whose member key is a string that trims
\* to a member of valid.
FieldAccepted(resp, key, valid) ==
    /\ ParsesAsObject(resp)
    /\ GetProp(ParsedOf(resp).val, key).t = "string"
    /\ Trim(GetProp(ParsedOf(resp).val, key).v) \in valid

TrimmedField(resp, key) == Trim(GetProp(ParsedOf(resp).val, key).v)

\* Run r has just bound analysis from the normalisation of lastResp[r].
JustClassified(r) ==
    /\ lastResp[r].item # 0
    /\ idx[r] = lastResp[r].item
    /\ pc[r] = "awaitPersist"

\* The persist step of item i of run r has been called since the last start.
PersistReached(r, i) ==
    \/ \E e \in inflight[r] : e.item = i /\ e.kind = "persist"
    \/ <<i, "persist">> \in SettledSteps(r)
    \/ <<i, "persist">> \in exhausted[r]

(***************************************************************************)
(* The claims.                                                             *)
(***************************************************************************)

(* C1: once a run has ended in which the persist step of one item ran out  *)
(* of retries, the failing item has no record and every other well-formed  *)
(* item of the batch, the later ones included, has one (batches of         *)
(* distinct sources, no restart).                                          *)
PartialBatchSuccess ==
    \A r \in Runs : \A k \in WellFormedIdx(r) :
        ( /\ pc[r] \in {"complete", "errored"}
          /\ <<k, "persist">> \in exhausted[r]
          /\ DistinctSources(r)
          /\ crashes[r] = 0 )
        => /\ RowsOf(r, k) = {}
           /\ \A j \in WellFormedIdx(r) \ {k} : RowsOf(r, j) # {}

(* C2: a run never ends in a failed state, whatever steps fail.            *)
NoFailedState == \A r \in Runs : pc[r] # "errored"

(* C3: whatever the AI answers, the analyze step returns, and what it      *)
(* returns, what is checkpointed, what run binds and every row of the      *)
(* table has a sentiment and a theme inside the enumerations.              *)
ClassificationInEnum ==
    /\ \A r \in Runs :
        /\ lastResp[r].item # 0 =>
              /\ <<lastResp[r].item, "analyze", "ran">> \in settled[r]
              /\ InEnum(Classification(Normalize(lastResp[r].resp)))
        /\ \A c \in cache[r] : c.result # NoAnalysis => InEnum(c.result)
        /\ analysis[r] # NoAnalysis => InEnum(analysis[r])
    /\ \A k \in 1..Len(store) : InEnum(store[k])

\* C3's case: an answer whose response is no string, classified and stored.
EnvelopeClassifiedAndStored ==
    \E r \in Runs :
        /\ lastResp[r].item # 0
        /\ ResponseOf(lastResp[r].resp).t # "string"
        /\ RowsOf(r, lastResp[r].item) # {}

(* C4: when the persist step of an item has completed and is called     *)
(* again (a replay of run after a restart), the table holds exactly one    *)
(* row for the item.                                                       *)
PersistReplayKeepsOneRecord ==
    \A r \in Runs : \A i \in 1..MaxItems :
        ( /\ <<i, "persist">> \in completed[r]
          /\ <<i, "persist", "cached">> \in settled[r] )
        => Cardinality(RowsOf(r, i)) = 1

\* The part of C4 that holds: once the persist step of an item has
\* completed, no step adds a row for the item, and the item has one row
\* unless a crash cut short an earlier attempt after its INSERT.
CompletedPersistAddsNoRecord ==
    /\ [][\A r \in Runs : \A i \in 1..MaxItems :
             <<i, "persist">> \in completed[r] => RowsOf(r, i)' = RowsOf(r, i)]_vars
    /\ [](\A r \in Runs : \A i \in 1..MaxItems :
             (<<i, "persist">> \in completed[r] /\ i \notin interrupted[r])
             => Cardinality(RowsOf(r, i)) = 1)

(* C5: the names of the steps called for distinct items of a batch are     *)
(* distinct.                                                               *)
StepNamesDistinct ==
    \A r \in Runs : \A a, b \in issued[r] : a.item # b.item => a.name # b.name

(* C6: a run that ended with no failed attempt and no restart has added    *)
(* exactly one row per well-formed item, with the item's source and        *)
(* content, a classification inside the enumerations and a timestamp       *)
(* later than the submission.                                              *)
OneRecordPerItem ==
    \A r \in Runs :
        (pc[r] = "complete" /\ ~failures[r] /\ crashes[r] = 0)
        => /\ Cardinality(RowsOfRun(r)) = Cardinality(WellFormedIdx(r))
           /\ \A i \in WellFormedIdx(r) :
                 \E k \in 1..Len(store) :
                     /\ RowsOf(r, i) = {k}
                     /\ store[k].source = SourceOf(ArrayItems(r)[i]).v
                     /\ store[k].content = ContentOf(ArrayItems(r)[i]).v
                     /\ InEnum(store[k])
                     /\ store[k].timestamp > submitted[r]

(* C7: the rows of one run are in the table in the order of their items.   *)
RecordsInBatchOrder ==
    \A k1, k2 \in 1..Len(store) :
        (k1 < k2 /\ prov[k1].run = prov[k2].run) => prov[k1].item <= prov[k2].item

\* C7's case: two items of one run persisted, the earlier one first.
TwoItemsPersisted ==
    \E k1, k2 \in 1..Len(store) :
        /\ k1 < k2
        /\ prov[k1].run = prov[k2].run
        /\ prov[k1].item < prov[k2].item
        /\ store[k1].id < store[k2].id

(* C8: at most one step of a run is outstanding; a persist step is         *)
(* outstanding only after the analyze step of its item has resolved, and   *)
(* a step of an item only after both steps of every earlier well-formed    *)
(* item have resolved.                                                     *)
StrictlySequential ==
    \A r \in Runs :
        /\ Cardinality(inflight[r]) <= 1
        /\ \A e \in inflight[r] :
              /\ e.kind = "persist" => <<e.item, "analyze">> \in SettledSteps(r)
              /\ \A j \in WellFormedIdx(r) :
                    j < e.item =>
                        {<<j, "analyze">>, <<j, "persist">>} \subseteq SettledSteps(r)

\* C8's case: the body of a step of a later item is running.
LaterItemStepRunning ==
    \E r \in Runs : \E e \in inflight[r] :
        /\ e.phase = "running"
        /\ \E j \in WellFormedIdx(r) : j < e.item

(* C9: a field of a parseable payload that trims to a member of its        *)
(* enumeration is returned whatever the other field holds, and a field     *)
(* that does not is replaced by its default.                               *)
FieldsValidatedIndependently ==
    \A r \in Runs :
        JustClassified(r) =>
            LET resp == lastResp[r].resp
            IN  /\ FieldAccepted(resp, <<"sentiment">>, validSentiments)
                   => analysis[r].sentiment = TrimmedField(resp, <<"sentiment">>)
                /\ FieldAccepted(resp, <<"theme">>, validThemes)
                   => analysis[r].theme = TrimmedField(resp, <<"theme">>)
                /\ (ParsesAsObject(resp)
                    /\ ~FieldAccepted(resp, <<"sentiment">>, validSentiments))
                   => analysis[r].sentiment = DefaultSentiment
                /\ (ParsesAsObject(resp)
                    /\ ~FieldAccepted(resp, <<"theme">>, validThemes))
                   => analysis[r].theme = DefaultTheme

(* C10: when the payload of the AI answer does not parse as an object, the *)
(* analyze step still returns, its result is the default classification,   *)
(* and run goes on to call the persist step of the item.                   *)
UnparseableGivesDefault ==
    \A r \in Runs :
        (lastResp[r].item # 0 /\ ~ParsesAsObject(lastResp[r].resp))
        => /\ <<lastResp[r].item, "analyze", "ran">> \in settled[r]
           /\ <<lastResp[r].item, "analyze">> \notin exhausted[r]
           /\ IsCached(r, AnalyzeStepName(ItemAt(r, lastResp[r].item)))
           /\ CachedResult(r, AnalyzeStepName(ItemAt(r, lastResp[r].item)))
                = DefaultClassification
           /\ PersistReached(r, lastResp[r].item)

\* C10's case: an answer that is no JSON has just been classified.
GarbageJustClassified ==
    \E r \in Runs : JustClassified(r) /\ ~ParsedOf(lastResp[r].resp).ok

\* value is member m between two runs of white space.
Padded(value, m) ==
    \E i \in 0..Len(value) :
        /\ i + Len(m) <= Len(value)
        /\ SubSeq(value, i + 1, i + Len(m)) = m
        /\ \A k \in 1..Len(value) :
              (k <= i \/ k > i + Len(m)) => value[k] \in WhiteSpace

\* The member of valid that the string x is, white space around it aside;
\* <<>> when it is none.
MemberOf(x, valid) ==
    IF x.t = "string" /\ \E m \in valid : Padded(x.v, m)
    THEN CHOOSE m \in valid : Padded(x.v, m)
    ELSE <<>>

(* C11: when the payload parses to an object whose sentiment and theme are *)
(* each, white space around them aside, exactly a member of their          *)
(* enumeration, the analyze step returns those two members; a string that  *)
(* is no member after trimming (by letter case, say) is not returned: the  *)
(* field gets its default.                                                 *)
EnumMembersAccepted ==
    \A r \in Runs :
        (JustClassified(r) /\ ParsesAsObject(lastResp[r].resp))
        => LET parsed == ParsedOf(lastResp[r].resp).val
               s == GetProp(parsed, <<"sentiment">>)
               t == GetProp(parsed, <<"theme">>)
           IN  /\ (MemberOf(s, validSentiments) # <<>> /\ MemberOf(t, validThemes) # <<>>)
                  => analysis[r] = [sentiment |-> MemberOf(s, validSentiments),
                                    theme |-> MemberOf(t, validThemes)]
               /\ (s.t = "string" /\ MemberOf(s, validSentiments) = <<>>)
                  => analysis[r].sentiment = DefaultSentiment
               /\ (t.t = "string" /\ MemberOf(t, validThemes) = <<>>)
                  => analysis[r].theme = DefaultTheme

\* C11's case: a padded member accepted next to a value that differs from
\* a member by letter case only.
PaddedMemberAccepted ==
    \E r \in Runs :
        /\ JustClassified(r)
        /\ ParsesAsObject(lastResp[r].resp)
        /\ GetProp(ParsedOf(lastResp[r].resp).val, <<"sentiment">>)
             = Str(<<" ", "Negative", " ">>)
        /\ GetProp(ParsedOf(lastResp[r].resp).val, <<"theme">>) = Str(<<"bug">>)
        /\ analysis[r] = [sentiment |-> <<"Negative">>, theme |-> DefaultTheme]

\* A running attempt e of an analyze step of run r ends in this step with
\* no answer from AI.run and no restart: AI.run has rejected.
AiCallFailed(r, e) ==
    /\ e \in inflight[r]
    /\ e.kind = "analyze"
    /\ e.phase = "running"
    /\ e \notin inflight'[r]
    /\ lastResp' = lastResp
    /\ crashes' = crashes

(* C12: when AI.run rejects, the analyze attempt fails to the engine:      *)
(* nothing is checkpointed and no classification is bound, the step is     *)
(* either given another attempt or rejects into run, and no persist step   *)
(* of the item is called.                                                  *)
AiFailureIsVisible ==
    [][\A r \in Runs : \A e \in inflight[r] :
          AiCallFailed(r, e)
          => /\ failures'[r]
             /\ cache' = cache
             /\ completed' = completed
             /\ analysis' = analysis
             /\ settled' = settled
             /\ \A f \in inflight'[r] : ~(f.item = e.item /\ f.kind = "persist")
             /\ \/ [e EXCEPT !.phase = "issued", !.attempt = @ + 1] \in inflight'[r]
                \/ /\ <<e.item, "analyze">> \in exhausted'[r]
                   /\ pc'[r] = "errored"]_vars

\* C12's case: an analyze step waits for its second attempt after AI.run
\* rejected, nothing checkpointed and no persist step called.
AnalyzeRetryPending ==
    \E r \in Runs : \E e \in inflight[r] :
        /\ e.kind = "analyze"
        /\ e.attempt = 1
        /\ e.phase = "issued"
        /\ failures[r]
        /\ ~IsCached(r, e.name)
        /\ ~PersistReached(r, e.item)

(* C13: an item one of whose steps ran out of retries has no row in the    *)
(* table.                                                                  *)
ExhaustedItemHasNoRecord ==
    \A r \in Runs : \A i \in 1..MaxItems :
        (<<i, "analyze">> \in exhausted[r] \/ <<i, "persist">> \in exhausted[r])
        => RowsOf(r, i) = {}

\* The part of C13 that holds: an item whose steps ran out of retries has no
\* row unless a crash cut short an earlier attempt after its INSERT, rows in
\* the table are never changed or removed, and none is added once a step of
\* the run has run out of retries.
ExhaustedLeavesStoreAlone ==
    /\ [](\A r \in Runs : \A i \in 1..MaxItems :
             ((<<i, "analyze">> \in exhausted[r] \/ <<i, "persist">> \in exhausted[r])
              /\ i \notin interrupted[r])
             => RowsOf(r, i) = {})
    /\ [][/\ Len(store') >= Len(store)
          /\ SubSeq(store', 1, Len(store)) = store
          /\ (\E r \in Runs : exhausted[r] # {}) => store' = store]_vars

\* The positions of run r's batch that hold one of the malformed items
\* (null, no source, empty content), and those that hold a well-formed one.
MalformedIdx(r) ==
    {i \in 1..Len(ArrayItems(r)) : ArrayItems(r)[i] \in MalformedItems}

ProperIdx(r) ==
    {i \in 1..Len(ArrayItems(r)) : ArrayItems(r)[i] \in WellFormedItems}

(* C14: for a malformed item of the batch no step is called, no AI.run     *)
(* call and no INSERT is made, and the items after it are processed: a run *)
(* that returns has resolved both steps of every well-formed item.         *)
MalformedItemsSkipped ==
    [](\A r \in Runs :
           /\ \A i \in MalformedIdx(r) :
                 /\ \A c \in issued[r] : c.item # i
                 /\ \A e \in inflight[r] : e.item # i
                 /\ aiCalls[r][i] = 0
                 /\ RowsOf(r, i) = {}
           /\ pc[r] = "complete" =>
                 \A j \in ProperIdx(r) :
                     {<<j, "analyze">>, <<j, "persist">>} \subseteq SettledSteps(r)
           /\ (pc[r] \in {"awaitAnalyze", "awaitPersist"}) => idx[r] \in ProperIdx(r))

\* C14's case: a run has returned whose first item was malformed and whose
\* second item has its row.
ItemAfterMalformedPersisted ==
    \E r \in Runs :
        /\ pc[r] = "complete"
        /\ 1 \in MalformedIdx(r)
        /\ 2 \in ProperIdx(r)
        /\ RowsOf(r, 2) # {}
        /\ RowsOfRun(r) = RowsOf(r, 2)

\* The payload of run r has nothing to process: items is missing, is no
\* array, is empty or holds malformed items only.
NothingToProcess(r) ==
    \/ payloadItems[r] \in {Undefined, Null}
    \/ payloadItems[r].t # "array"
    \/ \A i \in 1..Len(payloadItems[r].v) : payloadItems[r].v[i] \in MalformedItems

(* C15: a run whose payload has nothing to process calls no step, makes no *)
(* AI.run call and no INSERT, never awaits and never fails.                *)
EmptyRunDoesNothing ==
    \A r \in Runs :
        (pc[r] # "absent" /\ NothingToProcess(r))
        => /\ issued[r] = {}
           /\ inflight[r] = {}
           /\ \A i \in 1..MaxItems : aiCalls[r][i] = 0
           /\ RowsOfRun(r) = {}
           /\ cache[r] = {}
           /\ pc[r] \in {"queued", "loop", "complete"}

\* C15's case: a run over a full batch of malformed items has returned.
AllMalformedRunReturned ==
    \E r \in Runs :
        /\ pc[r] = "complete"
        /\ Len(ArrayItems(r)) = MaxItems
        /\ MalformedIdx(r) = 1..MaxItems
        /\ store = <<>>

\* The entries of the body of the accepted exchange h.
BodyEntries(h) == JSONParse(h.body).val.v

\* The text of field key of an entry, as String(... ?? "") gives it.
FieldText(entry, key) == StringCtor(Coalesce(GetProp(entry, key), Str(<<>>)))

Blank(s) == \A k \in 1..Len(s) : s[k] \in WhiteSpace

\* s is not empty and has no white space at either end.
Trimmed(s) == s # <<>> /\ s[1] \notin WhiteSpace /\ s[Len(s)] \notin WhiteSpace

\* The positions of the entries whose source and content are not blank.
Kept(entries) ==
    {i \in 1..Len(entries) :
        /\ ~Blank(FieldText(entries[i], <<"source">>))
        /\ ~Blank(FieldText(entries[i], <<"content">>))}

\* The k-th member of a set of positions.
Nth(positions, k) ==
    CHOOSE i \in positions : Cardinality({j \in positions : j < i}) = k - 1

(* C16: the items POST /ingest hands to a workflow instance are the        *)
(* entries of the body whose source and content are not blank, in their    *)
(* order, each with its source and its content trimmed and not empty.      *)
IngestHandsOnValidItems ==
    /\ \A r \in Runs : pc[r] # "absent" => \E n \in 1..Len(http) : http[n].instance = r
    /\ \A n \in 1..Len(http) :
          (http[n].route = "POST /ingest" /\ http[n].instance # 0)
          => LET entries == BodyEntries(http[n])
                 kept == Kept(entries)
                 items == payloadItems[http[n].instance].v
             IN  /\ payloadItems[http[n].instance].t = "array"
                 /\ Len(items) = Cardinality(kept)
                 /\ \A k \in 1..Len(items) :
                       LET entry == entries[Nth(kept, k)]
                       IN  /\ SourceOf(items[k]).t = "string"
                           /\ ContentOf(items[k]).t = "string"
                           /\ Trimmed(SourceOf(items[k]).v)
                           /\ Trimmed(ContentOf(items[k]).v)
                           /\ Padded(FieldText(entry, <<"source">>), SourceOf(items[k]).v)
                           /\ Padded(FieldText(entry, <<"content">>), ContentOf(items[k]).v)

\* C16's case: a body whose first entry has a blank source and whose second
\* entry has padded fields was accepted.
BlankEntryRemoved ==
    \E n \in 1..Len(http) :
        /\ http[n].instance # 0
        /\ Len(BodyEntries(http[n])) = 2
        /\ Kept(BodyEntries(http[n])) = {2}
        /\ payloadItems[http[n].instance]
             = Arr(<<Feedback(Str(<<"B">>), Str(<<"y">>))>>)

\* The body text is a JSON array with an entry whose source and content are
\* not blank.
HasValidItem(text) ==
    /\ JSONParse(text).ok
    /\ JSONParse(text).val.t = "array"
    /\ Kept(JSONParse(text).val.v) # {}

\* The body text is a JSON array with a null entry.
HasNullEntry(text) ==
    /\ JSONParse(text).ok
    /\ JSONParse(text).val.t = "array"
    /\ \E k \in 1..Len(JSONParse(text).val.v) : JSONParse(text).val.v[k] = Null

\* The exchange http[n] is answered as C17 says.
AnsweredAsSpecified(n) ==
    IF HasValidItem(http[n].body)
    THEN /\ http[n].status = 202
         /\ http[n].instance \in Runs
         /\ pc[http[n].instance] # "absent"
         /\ \A m \in 1..Len(http) : m # n => http[m].instance # http[n].instance
    ELSE /\ http[n].status = 400
         /\ http[n].instance = 0

(* C17: POST /ingest answers 202 with the id of the one workflow instance  *)
(* it created when the body is a JSON array with a valid item, and answers *)
(* 400 and creates no instance for every other body.                       *)
IngestAnswers202Or400 ==
    /\ \A n \in 1..Len(http) : AnsweredAsSpecified(n)
    /\ Cardinality({r \in Runs : pc[r] # "absent"})
         = Cardinality({n \in 1..Len(http) : http[n].status = 202})

\* The part of C17 that holds: the bodies without a null entry are answered
\* as C17 says, and there are as many instances as answers 202.
IngestAnswersWithoutNullEntry ==
    /\ \A n \in 1..Len(http) : ~HasNullEntry(http[n].body) => AnsweredAsSpecified(n)
    /\ Cardinality({r \in Runs : pc[r] # "absent"})
         = Cardinality({n \in 1..Len(http) : http[n].status = 202})

(* C18: the timestamp of a row is the time at which the attempt of the     *)
(* persist step that inserted it began, which is not before the persist    *)
(* step was called (the analyze step of the item having resolved) nor      *)
(* before the submission; the timestamps of the rows of a run do not       *)
(* decrease in the order of their items.                                   *)
TimestampReadByInsertingAttempt ==
    /\ \A k \in 1..Len(store) :
          /\ store[k].timestamp = prov[k].began
          /\ prov[k].called <= prov[k].began
          /\ submitted[prov[k].run] <= prov[k].called
          /\ aiCalls[prov[k].run][prov[k].item] > 0 => prov[k].called > submitted[prov[k].run]
    /\ \A k1, k2 \in 1..Len(store) :
          (prov[k1].run = prov[k2].run /\ prov[k1].item < prov[k2].item)
          => store[k1].timestamp <= store[k2].timestamp

\* C18's case: the one item of a batch was classified at the first attempt,
\* an attempt of its persist step failed, and the row a later attempt
\* inserted has a timestamp after the time the persist step was called.
RetriedPersistStampedLater ==
    \E r \in Runs :
        /\ Len(ArrayItems(r)) = 1
        /\ crashes[r] = 0
        /\ failures[r]
        /\ aiCalls[r][1] = 1
        /\ RowsOf(r, 1) # {}
        /\ \A k \in RowsOf(r, 1) : store[k].timestamp > prov[k].called

\* The rows of the answer are all the rows of the table, each once.
AllRows(rows) ==
    /\ Len(rows) = Len(store)
    /\ \A k \in 1..Len(store) : \E a \in 1..Len(rows) : rows[a] = store[k]

(* C19: GET /results returns all the rows of the table, a row with a later *)
(* timestamp before one with an earlier timestamp, however small the       *)
(* difference, and among rows of equal timestamps the higher id first.     *)
ResultsByTimestampThenId ==
    \A n \in Exchanges("GET /results") :
        \A a, b \in 1..Len(http[n].rows) :
            a < b =>
                \/ http[n].rows[a].timestamp > http[n].rows[b].timestamp
                \/ /\ http[n].rows[a].timestamp = http[n].rows[b].timestamp
                   /\ http[n].rows[a].id > http[n].rows[b].id

\* The part of C19 that holds: the answer has all the rows the table had,
\* a row of a later second before one of an earlier second, and among the
\* rows of one second the higher id first.
ResultsBySecondThenId ==
    /\ AllRows(Results)
    /\ \A n \in Exchanges("GET /results") :
          \A a, b \in 1..Len(http[n].rows) :
              a < b =>
                  \/ http[n].rows[a].timestamp \div MsPerSecond
                       > http[n].rows[b].timestamp \div MsPerSecond
                  \/ /\ http[n].rows[a].timestamp \div MsPerSecond
                          = http[n].rows[b].timestamp \div MsPerSecond
                     /\ http[n].rows[a].id > http[n].rows[b].id

(* C20: every well-formed item of a batch (of distinct sources) has a row  *)
(* in the table in the end, the services answering successfully when they  *)
(* are called again and again.                                             *)
NoItemLost ==
    <>(\A r \in Runs :
          (pc[r] # "absent" /\ DistinctSources(r))
          => \A i \in WellFormedIdx(r) : RowsOf(r, i) # {})

\* The part of C20 that holds: in the end the run has failed on a step out
\* of retries, or every well-formed item of the batch has a row.
NoItemLostUnlessExhausted ==
    <>(\A r \in Runs :
          (pc[r] # "absent" /\ DistinctSources(r))
          => \/ pc[r] = "errored"
             \/ \A i \in WellFormedIdx(r) : RowsOf(r, i) # {})

(* C21: the table is append-only: no step of the program, a step of a run  *)
(* or the answer to a request of any route, changes or removes a row that  *)
(* is in the table, and a step that writes to the table adds one row.      *)
StoreAppendOnly ==
    [][ /\ Len(store') \in {Len(store), Len(store) + 1}
        /\ \A k \in 1..Len(store) : store'[k] = store[k] ]_vars

\* C21's case: rows written at different times are in the table, a run has
\* been restarted and a request other than POST /ingest has been answered.
RecordsKeptThroughRequests ==
    /\ \E k1, k2 \in 1..Len(store) : store[k1].timestamp < store[k2].timestamp
    /\ \E r \in Runs : crashes[r] > 0
    /\ \E n \in 1..Len(http) :
          http[n].route # "POST /ingest" /\ http[n].status = 200

\* The source, content, sentiment and theme of the row at position k.
RecordOf(k) ==
    [source |-> store[k].source, content |-> store[k].content,
     sentiment |-> store[k].sentiment, theme |-> store[k].theme]

\* The records run r has added, in the order of the table.
RecordsOfRun(r) ==
    LET ks == SelectSeq([k \in 1..Len(store) |-> k], LAMBDA k : prov[k].run = r)
    IN  [n \in 1..Len(ks) |-> RecordOf(ks[n])]

\* What a run holds and what it has added to the table.
View(r) ==
    <<payloadItems[r], pc[r], idx[r], analysis[r], inflight[r], cache[r],
      crashes[r], RecordsOfRun(r)>>

\* The row at position k is made of an item of its own run's batch and of
\* the result its own run has checkpointed for the item's analyze step.
MadeByOwnRun(k) ==
    LET r == prov[k].run
        i == prov[k].item
        items == payloadItems[r].v
    IN  /\ i \in 1..Len(items)
        /\ store[k].source = SourceOf(items[i]).v
        /\ store[k].content = ContentOf(items[i]).v
        /\ \E c \in cache[r] :
              /\ c.name = <<"analyze feedback from ">> \o store[k].source
              /\ c.result = [sentiment |-> store[k].sentiment,
                             theme |-> store[k].theme]

(* C22: two runs at work at the same time share nothing but the table: a   *)
(* step changes what one run holds and has added, never what both do;      *)
(* every row is made of its own run's item and checkpoint, the rows of a   *)
(* run are in the order of its items, and once both runs have returned     *)
(* the table holds a row for each of their well-formed items.              *)
ConcurrentRunsIndependent ==
    /\ [][Cardinality({r \in Runs : View(r)' # View(r)}) <= 1]_vars
    /\ [](\A k \in 1..Len(store) : MadeByOwnRun(k))
    /\ [](\A k1, k2 \in 1..Len(store) :
             (k1 < k2 /\ prov[k1].run = prov[k2].run)
             => prov[k1].item <= prov[k2].item)
    /\ []((\A r \in Runs : pc[r] = "complete")
          => \A r \in Runs : \A i \in 1..Len(payloadItems[r].v) :
                payloadItems[r].v[i] \in WellFormedItems
                => RowsOf(r, i) # {})

\* C22's case: both runs have returned, the first after a restart, with a
\* row of the first between two rows of the second.
RunsInterleavedAndComplete ==
    /\ \A r \in Runs : pc[r] = "complete"
    /\ crashes[1] > 0
    /\ \E k1, k2, k3 \in 1..Len(store) :
          /\ k1 < k2 /\ k2 < k3
          /\ prov[k1].run = 2 /\ prov[k2].run = 1 /\ prov[k3].run = 2

\* The body of the step call e of run r starts in this step.
BodyStarts(r, e) ==
    /\ e.phase = "issued"
    /\ \E f \in inflight'[r] :
          /\ f.item = e.item /\ f.kind = e.kind /\ f.attempt = e.attempt
          /\ f.phase = "running"

\* The INSERT of the persist body of e is executed in this step.
BodyInserts(r, e) ==
    /\ e.kind = "persist"
    /\ e.phase = "running"
    /\ [e EXCEPT !.phase = "inserted"] \in inflight'[r]

\* The body of e returns in this step.
BodyReturns(r, e) ==
    /\ e \notin inflight'[r]
    /\ <<e.item, e.kind, "ran">> \in settled'[r] \ settled[r]

(* C23: an execution of an analyze body makes one AI.run call, when it     *)
(* starts, and writes no row; an execution of a persist body makes no      *)
(* AI.run call and no read of the table, and adds one row between its      *)
(* start and its return; AI.run is called and rows are added by nothing    *)
(* else.                                                                   *)
StepBodyEffects ==
    [][ /\ \A r \in Runs : \A e \in inflight[r] :
              /\ (e.kind = "analyze" /\ BodyStarts(r, e))
                 => /\ aiCalls'[r] = [aiCalls[r] EXCEPT ![e.item] = @ + 1]
                    /\ store' = store
              /\ (e.kind = "analyze" /\ e.phase = "running")
                 => /\ aiCalls'[r] = aiCalls[r]
                    /\ RowsOfRun(r)' = RowsOfRun(r)
              /\ e.kind = "persist"
                 => /\ aiCalls'[r] = aiCalls[r]
                    /\ e \notin inflight'[r] => http' = http
                    /\ BodyStarts(r, e) => store' = store
                    /\ BodyInserts(r, e)
                       => /\ Len(store') = Len(store) + 1
                          /\ SubSeq(store', 1, Len(store)) = store
                          /\ prov'[Len(store')].run = r
                          /\ prov'[Len(store')].item = e.item
                    /\ (e.phase = "running" /\ ~BodyInserts(r, e))
                       => RowsOfRun(r)' = RowsOfRun(r)
                    /\ e.phase = "inserted" => RowsOfRun(r)' = RowsOfRun(r)
                    /\ BodyReturns(r, e) => e.phase = "inserted"
        /\ aiCalls' # aiCalls
           => \E r \in Runs : \E e \in inflight[r] :
                 e.kind = "analyze" /\ BodyStarts(r, e)
        /\ store' # store
           => \E r \in Runs : \E e \in inflight[r] : BodyInserts(r, e) ]_vars

\* C23's case: a persist body that runs again after a failed attempt has
\* inserted its row, for an item whose analyze body ran more than once.
RetriedBodiesRan ==
    \E r \in Runs : \E e \in inflight[r] :
        /\ e.kind = "persist" /\ e.phase = "inserted" /\ e.attempt > 0
        /\ aiCalls[r][e.item] > 1

\* The step called for item j of run r, of the kind given, has a checkpoint.
HasCheckpoint(r, j, kind) ==
    \E c \in cache[r] :
        c.name = (IF kind = "analyze" THEN <<"analyze feedback from ">>
                  ELSE <<"persist feedback from ">>)
                 \o SourceOf(ArrayItems(r)[j]).v

(* C24: a run entered again after a restart calls its steps under the      *)
(* names it called them before; the body of a step that has completed is   *)
(* not run again, so that no AI.run call and no INSERT is made for it      *)
(* again; and a body runs only when every step called before it in the     *)
(* run has a checkpoint, its own analyze step included.                    *)
RestartResumesAtFirstUncompleted ==
    /\ [](\A r \in Runs : \A a, b \in issued[r] :
             (a.item = b.item /\ a.kind = b.kind) => a.name = b.name)
    /\ [][\A r \in Runs :
             /\ \A e \in inflight[r] :
                   BodyStarts(r, e)
                   => /\ <<e.item, e.kind>> \notin completed[r]
                      /\ e.kind = "persist" => HasCheckpoint(r, e.item, "analyze")
                      /\ \A j \in ProperIdx(r) :
                            j < e.item => /\ HasCheckpoint(r, j, "analyze")
                                          /\ HasCheckpoint(r, j, "persist")
             /\ \A i \in 1..MaxItems :
                   /\ <<i, "analyze">> \in completed[r]
                      => aiCalls'[r][i] = aiCalls[r][i]
                   /\ <<i, "persist">> \in completed[r]
                      => RowsOf(r, i)' = RowsOf(r, i)]_vars

\* C24's case: after a restart the analyze step of an item was answered
\* from its checkpoint and the body of its persist step, which had not
\* completed, is running; an earlier item's steps were both answered from
\* their checkpoints.
ResumedAtPersist ==
    \E r \in Runs : \E e \in inflight[r] :
        /\ crashes[r] > 0
        /\ e.kind = "persist" /\ e.phase = "running"
        /\ <<e.item, "analyze", "cached">> \in settled[r]
        /\ \E j \in 1..MaxItems :
              /\ j < e.item
              /\ {<<j, "analyze", "cached">>, <<j, "persist", "cached">>}
                 \subseteq settled[r]

\* The analyze body substitutes a default for the field key of resp: the
\* payload holds no member of valid under key.
DefaultSubstituted(resp, key, valid) == ~FieldAccepted(resp, key, valid)

(* C25: whenever the analyze body substitutes a default for a field, it    *)
(* has logged a warning, and the step has succeeded.                       *)
WarningOnEveryDefault ==
    \A r \in Runs :
        ( /\ lastResp[r].item # 0
          /\ \/ DefaultSubstituted(lastResp[r].resp, <<"sentiment">>, validSentiments)
             \/ DefaultSubstituted(lastResp[r].resp, <<"theme">>, validThemes) )
        => /\ Normalize(lastResp[r].resp).warned
           /\ <<lastResp[r].item, "analyze", "ran">> \in settled[r]

\* The part of C25 that holds: the step succeeds on every answer, and a
\* warning is logged when the payload is no JSON.
WarningOnParseError ==
    \A r \in Runs :
        lastResp[r].item # 0
        => /\ <<lastResp[r].item, "analyze", "ran">> \in settled[r]
           /\ ~ParsedOf(lastResp[r].resp).ok => Normalize(lastResp[r].resp).warned

\* What the member key of the envelope resp classifies as: the member of
\* valid it trims to when it is a string that does, else the default.
OwnField(resp, key, valid, default) ==
    LET x == GetProp(resp, key)
    IN  IF x.t = "string" /\ \E m \in valid : Padded(x.v, m)
        THEN CHOOSE m \in valid : Padded(x.v, m)
        ELSE default

\* resp is an envelope whose response member is no string.
ResponseIsNoString(resp) ==
    resp.t = "object" /\ GetProp(resp, <<"response">>).t # "string"

(* C26: an answer whose response member is no string is classified from    *)
(* the envelope's own sentiment and theme members, each replaced by its    *)
(* default when it is absent or invalid; the text parsed is the response   *)
(* member when it is a string and the serialised envelope otherwise.       *)
EnvelopeClassifiedFromOwnFields ==
    \A r \in Runs :
        JustClassified(r) =>
            LET resp == lastResp[r].resp
            IN  /\ ResponseIsNoString(resp)
                   => /\ analysis[r].sentiment
                           = OwnField(resp, <<"sentiment">>, validSentiments,
                                      DefaultSentiment)
                      /\ analysis[r].theme
                           = OwnField(resp, <<"theme">>, validThemes, DefaultTheme)
                /\ resp.t = "object"
                   => StringOf(RawText(resp))
                        = IF GetProp(resp, <<"response">>).t = "string"
                          THEN GetProp(resp, <<"response">>).v
                          ELSE StringifyText(resp)

\* The part of C26 that holds: the same, for envelopes whose sentiment and
\* theme members are strings or absent.
EnvelopeClassifiedWhenFieldsAreText ==
    \A r \in Runs :
        JustClassified(r) =>
            LET resp == lastResp[r].resp
            IN  ( /\ ResponseIsNoString(resp)
                  /\ \A key \in {<<"sentiment">>, <<"theme">>} :
                        GetProp(resp, key).t \in {"string", "undefined", "null"} )
                => /\ analysis[r].sentiment
                        = OwnField(resp, <<"sentiment">>, validSentiments,
                                   DefaultSentiment)
                   /\ analysis[r].theme
                        = OwnField(resp, <<"theme">>, validThemes, DefaultTheme)

(* C27: every row carries the classification computed for its own item:    *)
(* the analyze body of the item itself has run and returned, AI.run having *)
(* been called for the item, the row's sentiment and theme are the result  *)
(* checkpointed for the item's analyze step, and they are the normalised   *)
(* answer AI.run gave for the item while that answer is the last one of    *)
(* the run; this with batches whose items share a source too.              *)
RecordCarriesOwnClassification ==
    [](\A k \in 1..Len(store) :
           LET r == prov[k].run
               i == prov[k].item
               own == [sentiment |-> store[k].sentiment, theme |-> store[k].theme]
           IN  /\ <<i, "analyze">> \in completed[r]
               /\ aiCalls[r][i] >= 1
               /\ store[k].content = ContentOf(ArrayItems(r)[i]).v
               /\ \E c \in cache[r] :
                     /\ c.name = <<"analyze feedback from ">>
                                 \o SourceOf(ArrayItems(r)[i]).v
                     /\ c.result = own
               /\ lastResp[r].item = i
                  => own = Classification(Normalize(lastResp[r].resp)))

\* C27's case: a run over two items of one source has returned with a row
\* for the first, the steps of the second answered from the checkpoints of
\* the first.
SharedSourceBatchPersisted ==
    \E r \in Runs :
        /\ pc[r] = "complete"
        /\ Len(ArrayItems(r)) = 2
        /\ 2 \in ProperIdx(r) /\ 1 \in ProperIdx(r)
        /\ SourceOf(ArrayItems(r)[1]) = SourceOf(ArrayItems(r)[2])
        /\ ContentOf(ArrayItems(r)[1]) # ContentOf(ArrayItems(r)[2])
        /\ <<2, "analyze", "cached">> \in settled[r]
        /\ RowsOf(r, 1) # {}

(* C28: whatever the crashes and retries, the table never holds more than  *)
(* one row for the same item of the same run.                              *)
AtMostOneRecordPerItem ==
    \A r \in Runs : \A i \in 1..MaxItems : Cardinality(RowsOf(r, i)) <= 1

\* The part of C28 that holds: an item has two rows only after a restart
\* that cut short a persist attempt of the item whose INSERT had been
\* executed; failing attempts and their retries add no second row.
OneRecordUnlessInterrupted ==
    \A r \in Runs : \A i \in 1..MaxItems :
        i \notin interrupted[r] => Cardinality(RowsOf(r, i)) <= 1

\* The result checkpointed for the analyze step of item i of run r is c.
AnalyzeCheckpointIs(r, i, c) ==
    \E x \in cache[r] :
        /\ x.name = <<"analyze feedback from ">> \o SourceOf(ArrayItems(r)[i]).v
        /\ x.result = c

(* C29: while the persist step of an item is outstanding, in its first     *)
(* attempt or a later one, no AI.run call is made for the item, the        *)
(* classification it holds is the one checkpointed for the item's analyze  *)
(* step, and the row an attempt inserts carries that classification.       *)
PersistRetryKeepsClassification ==
    /\ [](\A r \in Runs : \A e \in inflight[r] :
             e.kind = "persist"
             => /\ AnalyzeCheckpointIs(r, e.item, e.arg)
                /\ analysis[r] = e.arg)
    /\ [][\A r \in Runs : \A e \in inflight[r] :
             e.kind = "persist"
             => /\ aiCalls'[r][e.item] = aiCalls[r][e.item]
                /\ BodyInserts(r, e)
                   => AnalyzeCheckpointIs(r, e.item,
                          [sentiment |-> store'[Len(store')].sentiment,
                           theme |-> store'[Len(store')].theme])]_vars

\* C29's case: a persist attempt after a failed one has inserted the row of
\* an item classified otherwise than by the defaults, AI.run called once.
RetriedPersistInserted ==
    \E r \in Runs : \E e \in inflight[r] : \E k \in RowsOf(r, e.item) :
        /\ e.kind = "persist" /\ e.attempt > 0 /\ e.phase = "inserted"
        /\ aiCalls[r][e.item] = 1
        /\ store[k].sentiment # DefaultSentiment

\* The body text is a JSON array.
IsArrayBody(text) == JSONParse(text).ok /\ JSONParse(text).val.t = "array"

(* C30: every POST /ingest request whose body is a JSON array is answered  *)
(* with status 400 or 202, whatever its entries are.                       *)
ArrayBodyAnswered400Or202 ==
    \A n \in Exchanges("POST /ingest") :
        IsArrayBody(http[n].body) => http[n].status \in {400, 202}

\* The part of C30 that holds: no entry other than null makes the handler
\* fail, be it an object with missing or non-string fields or a primitive.
ArrayBodyWithoutNullAnswered ==
    \A n \in Exchanges("POST /ingest") :
        (IsArrayBody(http[n].body) /\ ~HasNullEntry(http[n].body))
        => http[n].status \in {400, 202}

(* C31: whatever payload a run is handed, no row of the table has a source *)
(* or a content that is empty after trimming.                              *)
NoBlankRecord ==
    \A k \in 1..Len(store) : ~Blank(store[k].source) /\ ~Blank(store[k].content)

\* The part of C31 that holds: no row has an empty source or content, and
\* no row is written for an item that is null or lacks a field.
NoEmptyRecord ==
    /\ \A k \in 1..Len(store) : store[k].source # <<>> /\ store[k].content # <<>>
    /\ \A k \in 1..Len(store) :
          LET item == ArrayItems(prov[k].run)[prov[k].item]
          IN  /\ item.t = "object"
              /\ GetProp(item, <<"source">>).t = "string"
              /\ GetProp(item, <<"content">>).t = "string"

(* C32: two requests sent to AI.run for items of equal content are the     *)
(* same request (model, system instruction and user prompt), whatever the  *)
(* items' sources, positions and runs, and whenever they were sent.        *)
RequestFromContentAlone ==
    \A a, b \in requests :
        ContentOf(ItemAt(a.run, a.item)) = ContentOf(ItemAt(b.run, b.item))
            => a.request = b.request

\* C32's case: the two items of a batch have equal content and different
\* sources, and the request for the second was sent after the first item
\* was classified.
SameContentRequested ==
    \E a, b \in requests :
        /\ a.run = b.run /\ a.item = 1 /\ b.item = 2
        /\ ContentOf(ItemAt(a.run, 1)) = ContentOf(ItemAt(b.run, 2))
        /\ SourceOf(ItemAt(a.run, 1)) # SourceOf(ItemAt(b.run, 2))
        /\ HasCheckpoint(a.run, 1, "analyze")
        /\ clock > 0

\* The exchange this step has added to the log, if it has added one.
Answered == IF Len(http') = Len(http) + 1 THEN {http'[Len(http')]} ELSE {}

(* C33: a workflow instance comes into being only in the step that answers *)
(* a POST /ingest request 202, the table changes only in the step in which *)
(* the INSERT of a running persist body is executed, and the step that     *)
(* answers GET / (200), GET /results (200) or a request of another route   *)
(* (404) creates no instance, hands over no batch and leaves the table as  *)
(* it was.                                                                 *)
OnlyIngestStartsOnlyPersistWrites ==
    [][ /\ \A r \in Runs :
              pc[r] = "absent" /\ pc'[r] # "absent"
                  => \E x \in Answered :
                        /\ x.route = "POST /ingest"
                        /\ x.status = 202
                        /\ x.instance = r
        /\ store' # store
              => /\ Answered = {}
                 /\ \E r \in Runs : \E e \in inflight[r] : BodyInserts(r, e)
        /\ \A x \in Answered :
              x.route # "POST /ingest"
                  => /\ x.status = (IF x.route = "other" THEN 404 ELSE 200)
                     /\ x.instance = 0
                     /\ pc' = pc
                     /\ payloadItems' = payloadItems
                     /\ inflight' = inflight
                     /\ store' = store ]_vars

\* C33's case: with an instance at work and a row in the table, a request
\* of another route has been answered 404, or GET / or GET /results 200,
\* and the only instance is the one POST /ingest has created.
OtherRoutesAnswered ==
    /\ store # <<>>
    /\ \E n \in 2..Len(http) : http[n].route = "other" /\ http[n].status = 404
    /\ \E n \in 1..Len(http) : http[n].route = "POST /ingest" /\ http[n].instance # 0
    /\ Cardinality({r \in Runs : pc[r] # "absent"}) = 1

\* The last well-formed item of the batch of run r (0 if it has none).
LastWellFormed(r) ==
    IF WellFormedIdx(r) = {} THEN 0
    ELSE CHOOSE i \in WellFormedIdx(r) : \A j \in WellFormedIdx(r) : j <= i

\* The step.do calls run r has made for item i.
IssuedFor(r, i, kind) == {s \in issued[r] : s.item = i /\ s.kind = kind}

(* C34: a run calls at most one analyze and one persist step for each      *)
(* well-formed item of its batch and none for another item, hence at most  *)
(* 2N steps for N items; it returns only when the persist step of the last *)
(* well-formed item has resolved; once it has returned it calls no step    *)
(* and has none outstanding; and unless a step fails for good (runs out of *)
(* retries), the run returns in the end.                                   *)
StepsBoundedAndRunReturns ==
    /\ [](\A r \in Runs :
            pc[r] # "absent" =>
              /\ Cardinality(issued[r]) <= 2 * Cardinality(WellFormedIdx(r))
              /\ Cardinality(issued[r]) <= 2 * Len(ItemsOf(r).v)
              /\ \A s \in issued[r] : s.item \in WellFormedIdx(r)
              /\ \A i \in WellFormedIdx(r) :
                    /\ Cardinality(IssuedFor(r, i, "analyze")) <= 1
                    /\ Cardinality(IssuedFor(r, i, "persist")) <= 1)
    /\ [][\A r \in Runs :
            /\ (pc[r] # "complete" /\ pc'[r] = "complete" /\ WellFormedIdx(r) # {})
                  => \E s \in settled[r] :
                        s[1] = LastWellFormed(r) /\ s[2] = "persist"
            /\ pc[r] = "complete"
                  => /\ pc'[r] = "complete"
                     /\ issued'[r] = issued[r]
                     /\ inflight[r] = {} /\ inflight'[r] = {}]_vars
    /\ <>(\A r \in Runs :
            \/ pc[r] \in {"absent", "complete"}
            \/ exhausted[r] # {})

\* C34's case: a run over a batch of two well-formed items has returned
\* after 2N step calls, with an attempt that failed and was retried and a
\* restart on the way.
RunReturnedAfterAllSteps ==
    \E r \in Runs :
        /\ pc[r] = "complete"
        /\ Len(ItemsOf(r).v) = 2
        /\ Cardinality(issued[r]) = 2 * Len(ItemsOf(r).v)
        /\ failures[r]
        /\ crashes[r] > 0
        /\ exhausted[r] = {}

=============================================================================
